---- MODULE Spec2Model ----
(***************************************************************************)
(* Model of the Oracle indexing and hybrid-retrieval engine:               *)
(*   - the Chunk Store (SQLite table `chunks`, AUTOINCREMENT ids),         *)
(*   - the persisted lexical (Orama BM25) and vector (USearch) indexes,    *)
(*   - indexRepository / updateRepository (the indexer orchestrator),      *)
(*   - reciprocalRankFusion, hybridSearch and mergeResults (retrieval).    *)
(***************************************************************************)
EXTENDS Integers, Sequences, FiniteSets, TLC

VARIABLES
    files,          \* working tree: path -> file content ("absent" = no file)
    chunks,         \* Chunk Store: rows of table `chunks` in rowid order
    sqliteSequence, \* AUTOINCREMENT high-water mark of table `chunks`
    bm25File,       \* .oracle/bm25.msp       [exists, docs]
    vecFile,        \* .oracle/vectors.usearch [exists, keys]
    run,            \* outcome of the last indexRepository/updateRepository
    pc,             \* "idle", "fused" (after a fusion), "searched"
    fusionInput,    \* the ranked lists handed to reciprocalRankFusion
    rrfK,           \* its smoothing factor k
    fused,          \* what reciprocalRankFusion returned
    search,         \* what the two searches of hybridSearch returned
    results,        \* what hybridSearch returned
    cli,            \* the running `oracle` process: command, await point,
                    \* store handle, exit
    schema,         \* schema versioning of the store: user_version,
                    \* schema_migrations, schema changes, and a
                    \* runMigrations call on them
    walker,         \* a discoverFiles call: file sizes, the caller's
                    \* size option, the files accepted
    ranker,         \* a reranker from initReranker and a rerank call on it
    cache,          \* the ResponseCache: memory layer, disk layer, last call
    answer          \* a generateAnswer call: its inputs and what it did

indexVars ==
    <<files, chunks, sqliteSequence, bm25File, vecFile, run, schema, walker,
      ranker, cache, answer>>
retrievalVars == <<pc, fusionInput, rrfK, fused, search, results>>
vars == <<files, chunks, sqliteSequence, bm25File, vecFile, run,
          pc, fusionInput, rrfK, fused, search, results, cli, schema,
          walker, ranker, cache, answer>>

(***************************************************************************)
(* Bounds                                                                  *)
(***************************************************************************)
MaxId == 4          \* ids the store may hand out before the model stops
MaxRank == 3        \* longest ranked list handed to the fusion
MaxVersion == 4     \* highest version a registered migration may carry
MaxCandidates == 3  \* most candidates handed to rerank
MemoryMax == 2      \* entries the memory layer holds (`max: 100` in the source)

(***************************************************************************)
(* The repository under index                                              *)
(***************************************************************************)
RepoPath == "/r"
RelPaths == <<"a.ts", "b.ts">>
NoFile == "absent"

\* File contents the working tree can hold.  Each is a representative of a
\* class of source files, named by what the chunker extracts from it.
WholeFn == "W"            \* one function and nothing else (no final newline)
OneFn == "F;"             \* one function on lines 1-2, then more text
ClassLine == "C{M};"      \* class with a method, both on line 1
EmptyFile == ""
FileContents == {EmptyFile, WholeFn, OneFn, ClassLine}

\* A file on which parser.parse or query.matches throws
ParseThrows == "!"

\* join(currentPath, entry.name) / `${options.repoPath}/${relPath}`
AbsPath(rel) == RepoPath \o "/" \o rel

AbsPaths == {AbsPath(RelPaths[i]) : i \in 1..Len(RelPaths)}

\* The contents each file takes in the model (the second file only needs
\* to exist with one chunk, or not to exist)
ContentsOf(p) == IF p = AbsPath("a.ts") THEN FileContents ELSE {OneFn}

\* hashContent: SHA-256 hex digest, collision-free on the model's strings
hashContent(content) == "sha256:" \o content

\* filePath.substring(filePath.lastIndexOf('.')) and parserMap.get(ext)
parserMap == {".ts", ".tsx", ".js", ".jsx", ".py"}

ExtOf(path) ==
    IF path \in {AbsPath("a.ts"), AbsPath("b.ts")} THEN ".ts" ELSE ".md"

\* One match of the compiled query: the primary capture's node
Match(name, type, text, startRow, endRow) ==
    [symbolName |-> name, symbolType |-> type, text |-> text,
     startRow |-> startRow, endRow |-> endRow]

\* parserCache.query.matches(tree.rootNode) for the representative contents
QueryMatches(content) ==
    CASE content = WholeFn -> <<Match("w", "function", "W", 0, 0)>>
      [] content = OneFn -> <<Match("f", "function", "F", 0, 1)>>
      [] content = ClassLine -> <<Match("C", "class", "C{M}", 0, 0),
                                  Match("m", "method", "M", 0, 0)>>
      [] OTHER -> <<>>

\* chunkCodeFile: one CodeChunk per match; its catch turns a throw of the
\* parser or the query into the empty list
chunkCodeFile(filePath, content) ==
    LET matches == IF content = ParseThrows THEN <<>>
                   ELSE QueryMatches(content)
    IN [i \in 1..Len(matches) |->
          [filePath |-> filePath,
           symbolName |-> matches[i].symbolName,
           symbolType |-> matches[i].symbolType,
           content |-> matches[i].text,
           contentHash |-> hashContent(matches[i].text),
           startLine |-> matches[i].startRow + 1,
           endLine |-> matches[i].endRow + 1]]


(***************************************************************************)
(* Chunk Store (table `chunks`)                                            *)
(***************************************************************************)
RECURSIVE SeqSum(_)
SeqSum(ns) == IF ns = <<>> THEN 0 ELSE Head(ns) + SeqSum(Tail(ns))

RECURSIVE Flatten(_)
Flatten(ss) == IF ss = <<>> THEN <<>> ELSE Head(ss) \o Flatten(Tail(ss))

RECURSIVE MaxRowid(_)
MaxRowid(table) ==
    IF table = <<>> THEN 0
    ELSE LET rest == MaxRowid(Tail(table))
         IN IF Head(table).id > rest THEN Head(table).id ELSE rest

\* Mutant: id INTEGER PRIMARY KEY without AUTOINCREMENT, a new row gets the
\* largest rowid of the table plus one, so ids of deleted rows come back
insertChunksBatchReusingRowids(table, seqNo, rows) ==
    [table |-> table \o [i \in 1..Len(rows) |->
                           [id |-> MaxRowid(table) + i,
                            filePath |-> rows[i].filePath,
                            symbolName |-> rows[i].symbolName,
                            symbolType |-> rows[i].symbolType,
                            content |-> rows[i].content,
                            contentHash |-> rows[i].contentHash,
                            startLine |-> rows[i].startLine,
                            endLine |-> rows[i].endLine]],
     seqNo |-> MaxRowid(table) + Len(rows)]

\* INSERT INTO chunks ... inside one transaction; id INTEGER PRIMARY KEY
\* AUTOINCREMENT gives each row the next value above sqlite_sequence
insertChunksBatch(table, seqNo, rows) ==
    [table |-> table \o [i \in 1..Len(rows) |->
                           [id |-> seqNo + i,
                            filePath |-> rows[i].filePath,
                            symbolName |-> rows[i].symbolName,
                            symbolType |-> rows[i].symbolType,
                            content |-> rows[i].content,
                            contentHash |-> rows[i].contentHash,
                            startLine |-> rows[i].startLine,
                            endLine |-> rows[i].endLine]],
     seqNo |-> seqNo + Len(rows)]

\* DELETE FROM chunks
deleteAllChunks(table) == <<>>

\* DELETE FROM chunks WHERE file_path = ?
deleteChunksByFile(table, filePath) ==
    SelectSeq(table, LAMBDA r : r.filePath # filePath)

\* SELECT * FROM chunks WHERE file_path = ?
getChunksByFile(table, filePath) ==
    SelectSeq(table, LAMBDA r : r.filePath = filePath)

\* SELECT * FROM chunks
getAllChunks(table) == table

\* SELECT * FROM chunks WHERE id IN (...)
getChunksByIds(table, ids) ==
    SelectSeq(table, LAMBDA r : \E i \in 1..Len(ids) : ids[i] = r.id)

(***************************************************************************)
(* Lexical and vector index builders                                       *)
(***************************************************************************)
\* `${chunk.filePath}:${chunk.startLine}`
DocId(filePath, startLine) == filePath \o ":" \o ToString(startLine)

\* The documents buildBM25Index hands to Orama's insert, in order
BM25Docs(table) ==
    LET rows == getAllChunks(table)
    IN [i \in 1..Len(rows) |->
          [id |-> DocId(rows[i].filePath, rows[i].startLine),
           file_path |-> rows[i].filePath,
           symbol_name |-> rows[i].symbolName,
           start_line |-> rows[i].startLine,
           end_line |-> rows[i].endLine]]

\* Orama's insert rejects a document whose id is already in the index
BM25Throws(table) ==
    LET docs == BM25Docs(table)
    IN \E i, j \in 1..Len(docs) : i < j /\ docs[i].id = docs[j].id

\* Mutant: the position of the chunk in the batch is used as the key instead
\* of chunk.id
VectorKeysByPosition(table) ==
    [i \in 1..Len(getAllChunks(table)) |-> i]

\* The keys buildVectorIndex adds: BigInt(chunk.id), one per row
VectorKeys(table) ==
    LET rows == getAllChunks(table)
    IN [i \in 1..Len(rows) |-> rows[i].id]

\* `if (!chunk.id) throw`, and USearch (multi: false) rejects a repeated key
VectorThrows(table) ==
    LET keys == VectorKeys(table)
    IN \/ \E i \in 1..Len(keys) : keys[i] = 0
       \/ \E i, j \in 1..Len(keys) : i < j /\ keys[i] = keys[j]

(***************************************************************************)
(* Fusion: reciprocalRankFusion                                            *)
(***************************************************************************)
\* const k = options.k ?? 60
DefaultK == 60

\* The values of k the model fuses with
SmoothingFactors == {1, DefaultK}

\* Item ids: BM25 ids are strings ("file:line"), vector ids are numbers.
\* A JavaScript value is its type together with its value.
Str(s) == [type |-> "string", str |-> s, num |-> 0]
Num(n) == [type |-> "number", str |-> "", num |-> n]

RECURSIVE Pow2(_)
Pow2(n) == IF n = 0 THEN 1 ELSE 2 * Pow2(n - 1)

RECURSIVE BitLen(_)
BitLen(n) == IF n = 0 THEN 0 ELSE 1 + BitLen(n \div 2)

\* A JavaScript number is an IEEE 754 binary64.  A positive score is kept as
\* its 53-bit significand in two limbs and its exponent:
\*     value = (hi * 2^27 + lo) * 2^(ex - 52),
\*     2^25 <= hi < 2^26,  0 <= lo < 2^27
Limb == Pow2(27)
HiOne == Pow2(25)

\* The number 0 of `?? 0`
FZero == [ex |-> 0, hi |-> 0, lo |-> 0]

\* The next number up: one unit in the last place more
FNextUp(x) ==
    IF x.lo + 1 < Limb THEN [x EXCEPT !.lo = x.lo + 1]
    ELSE IF x.hi + 1 < 2 * HiOne THEN [x EXCEPT !.hi = x.hi + 1, !.lo = 0]
    ELSE [ex |-> x.ex + 1, hi |-> HiOne, lo |-> 0]

\* The next `bits` bits of the quotient rem / n, and what remains
DivStep(rem, n, bits) ==
    [q |-> (rem * Pow2(bits)) \div n, rem |-> (rem * Pow2(bits)) % n]

\* 1 / n for an integer 1 <= n < 2^17, rounded to nearest: long division to
\* 53 significant bits, then up if the remainder is more than half of n (it
\* is never exactly half)
FRecip(n) ==
    LET len == BitLen(n)
    IN IF n = Pow2(len - 1)
       THEN [ex |-> 0 - (len - 1), hi |-> HiOne, lo |-> 0]
       ELSE LET a == DivStep(Pow2(len) - n, n, 13)
                b == DivStep(a.rem, n, 12)
                c == DivStep(b.rem, n, 14)
                d == DivStep(c.rem, n, 13)
                down == [ex |-> 0 - len,
                         hi |-> HiOne + a.q * Pow2(12) + b.q,
                         lo |-> c.q * Pow2(13) + d.q]
            IN IF 2 * d.rem > n THEN FNextUp(down) ELSE down

\* a < b in the order of the numbers
FLess(a, b) ==
    \/ a.ex < b.ex
    \/ a.ex = b.ex /\ a.hi < b.hi
    \/ a.ex = b.ex /\ a.hi = b.hi /\ a.lo < b.lo

\* x + y for x.ex >= y.ex, exponents at most 26 apart: the exact sum in
\* three limbs, in units of the last place of y, rounded to 53 bits, ties
\* to even
FAddOrdered(x, y) ==
    LET d == x.ex - y.ex
        s == Pow2(d)
        c == Pow2(27 - d)
        t0raw == (x.lo % c) * s + y.lo
        t0 == t0raw % Limb
        t1raw == (x.hi % c) * s + x.lo \div c + y.hi + t0raw \div Limb
        t1 == t1raw % Limb
        t2 == x.hi \div c + t1raw \div Limb
        sh == (IF t2 > 0 THEN 54 + BitLen(t2) ELSE 27 + BitLen(t1)) - 53
        p == Pow2(sh)
        q == Pow2(27 - sh)
        down == [ex |-> y.ex + sh,
                 hi |-> t1 \div p + t2 * q,
                 lo |-> t0 \div p + (t1 % p) * q]
        rem == t0 % p
        half == p \div 2
    IN IF rem > half \/ (rem = half /\ down.lo % 2 = 1)
       THEN FNextUp(down) ELSE down

\* a + b
FAdd(a, b) ==
    IF a = FZero THEN b
    ELSE IF b = FZero THEN a
    ELSE IF a.ex >= b.ex THEN FAddOrdered(a, b) ELSE FAddOrdered(b, a)

\* Mutant: the rank is not converted to 1-indexed, 1 / (rank + k)
rrfScoreZeroBased(rank, k) == FRecip(rank + k)

\* const rrfScore = 1 / (rank + 1 + k)
rrfScore(rank, k) == FRecip(rank + 1 + k)

\* Mutant: ids coerced to strings, as the property keys of a plain object are
MapKeyAsString(id) ==
    IF id.type = "number" THEN Str(ToString(id.num)) ELSE id

\* Map<string | number, number> compares keys by SameValueZero: the key of an
\* item is its id, type included
MapKey(id) == id

MapHas(m, key) == \E i \in 1..Len(m) : m[i].key = key

\* scores.get(key) ?? 0
MapGet(m, key) ==
    IF MapHas(m, key)
    THEN m[CHOOSE i \in 1..Len(m) : m[i].key = key].value
    ELSE FZero

\* scores.set(key, value): a new key is appended, an old one keeps its place
MapSet(m, key, value) ==
    IF MapHas(m, key)
    THEN [i \in 1..Len(m) |->
            IF m[i].key = key THEN [key |-> key, value |-> value] ELSE m[i]]
    ELSE Append(m, [key |-> key, value |-> value])

\* for (let rank = 0; rank < rankedList.length; rank++) { ... }
RECURSIVE AccumulateList(_, _, _, _)
AccumulateList(scores, rankedList, rank, k) ==
    IF rank >= Len(rankedList) THEN scores
    ELSE LET item == rankedList[rank + 1]
             currentScore == MapGet(scores, MapKey(item.id))
         IN AccumulateList(
                MapSet(scores, MapKey(item.id),
                       FAdd(currentScore, rrfScore(rank, k))),
                rankedList, rank + 1, k)

\* for (const rankedList of rankedLists) { ... }
RECURSIVE AccumulateLists(_, _, _)
AccumulateLists(scores, rankedLists, k) ==
    IF rankedLists = <<>> THEN scores
    ELSE AccumulateLists(AccumulateList(scores, Head(rankedLists), 0, k),
                         Tail(rankedLists), k)

\* Array.from(scores.entries()).map(([id, score]) => ({ id, score }))
MapEntries(m) == [i \in 1..Len(m) |-> [id |-> m[i].key, score |-> m[i].value]]

\* Mutant: ascending order, (a, b) => a.score - b.score
InsertAscending(sorted, e) ==
    LET ahead == Cardinality({i \in 1..Len(sorted) :
                                 ~FLess(e.score, sorted[i].score)})
    IN SubSeq(sorted, 1, ahead) \o <<e>> \o SubSeq(sorted, ahead + 1, Len(sorted))

\* Mutant: an unstable sort, an element goes in front of its equals
InsertFirstAmongEquals(sorted, e) ==
    LET ahead == Cardinality({i \in 1..Len(sorted) :
                                 FLess(e.score, sorted[i].score)})
    IN SubSeq(sorted, 1, ahead) \o <<e>> \o SubSeq(sorted, ahead + 1, Len(sorted))

\* One step of the stable sort: e goes behind every element that does not
\* compare after it (b.score - a.score <= 0)
InsertByScore(sorted, e) ==
    LET ahead == Cardinality({i \in 1..Len(sorted) :
                                 ~FLess(sorted[i].score, e.score)})
    IN SubSeq(sorted, 1, ahead) \o <<e>> \o SubSeq(sorted, ahead + 1, Len(sorted))

\* results.sort((a, b) => b.score - a.score): Array.prototype.sort is stable
RECURSIVE SortByScore(_, _)
SortByScore(sorted, rest) ==
    IF rest = <<>> THEN sorted
    ELSE SortByScore(InsertByScore(sorted, Head(rest)), Tail(rest))

\* Mutant: the rank keeps counting from one list into the next
rrfRankCarriedOver(rankedLists, k) ==
    SortByScore(<<>>, MapEntries(AccumulateList(<<>>, Flatten(rankedLists), 0, k)))

reciprocalRankFusion(rankedLists, k) ==
    SortByScore(<<>>, MapEntries(AccumulateLists(<<>>, rankedLists, k)))

(***************************************************************************)
(* Indexer orchestrator                                                    *)
(***************************************************************************)
AbsPathSeq == [i \in 1..Len(RelPaths) |-> AbsPath(RelPaths[i])]

\* Where an operation outside the per-file loop throws, if the run gets there.
\* "init": mkdir or `new Database` in initDatabase; "pragma": one of its
\* pragmas; "schema": its CREATE TABLE statements; "migrate": runMigrations
Faults == {"none", "init", "pragma", "schema", "migrate", "parsers",
           "discover", "insert", "bm25", "embed", "vector"}

\* The faults of initDatabase and runMigrations: nothing has been written yet
OpenFaults == {"init", "pragma", "schema", "migrate"}

\* The stages of Faults that updateRepository itself goes through
UpdateFaults == {"none", "init", "pragma", "schema", "migrate", "parsers",
                 "insert"}

\* initDatabase: whether it returned the handle to its caller, and how many
\* handles it opened and did not close itself.  The pragmas stand outside its
\* try blocks: when one throws, the opened handle is neither closed nor
\* returned; the catch around the schema statements closes before it throws
initDatabase(fault) ==
    CASE fault = "init" -> [returned |-> FALSE, open |-> 0]
      [] fault = "pragma" -> [returned |-> FALSE, open |-> 1]
      [] fault = "schema" -> [returned |-> FALSE, open |-> 0]
      [] OTHER -> [returned |-> TRUE, open |-> 1]

\* finally { if (db) { db.close(); } }: the handles still open afterwards
Finally(init) == IF init.returned THEN 0 ELSE init.open

\* discoverFiles: the files present under the root, sorted
discoverFiles(fs) == SelectSeq(AbsPathSeq, LAMBDA p : fs[p] # NoFile)

\* One iteration of the per-file loop (parser lookup, readFile, chunkCodeFile)
FileOutcome(p, fs, unreadable) ==
    IF ExtOf(p) \notin parserMap
    THEN [rows |-> <<>>, processed |-> 1, failed |-> 0]
    ELSE IF p \in unreadable \/ fs[p] = NoFile
    THEN [rows |-> <<>>, processed |-> 0, failed |-> 1]
    ELSE [rows |-> chunkCodeFile(p, fs[p]), processed |-> 1, failed |-> 0]

LoopOutcomes(paths, fs, unreadable) ==
    [i \in 1..Len(paths) |-> FileOutcome(paths[i], fs, unreadable)]

LoopChunks(outs) == Flatten([i \in 1..Len(outs) |-> outs[i].rows])

LoopStats(discovered, outs, created) ==
    [filesDiscovered |-> discovered,
     filesProcessed |-> SeqSum([i \in 1..Len(outs) |-> outs[i].processed]),
     filesFailed |-> SeqSum([i \in 1..Len(outs) |-> outs[i].failed]),
     chunksCreated |-> created]

ZeroStats ==
    [filesDiscovered |-> 0, filesProcessed |-> 0, filesFailed |-> 0,
     chunksCreated |-> 0]

Returned(w, stats) ==
    [chunks |-> w.chunks, seqNo |-> w.seqNo, bm25 |-> w.bm25, vec |-> w.vec,
     ok |-> TRUE, stats |-> stats, handles |-> 0]

Thrown(w) ==
    [chunks |-> w.chunks, seqNo |-> w.seqNo, bm25 |-> w.bm25, vec |-> w.vec,
     ok |-> FALSE, stats |-> ZeroStats, handles |-> 0]

\* indexRepository from initDatabase to the return or throw of its try block
indexRepositoryTry(w, fs, unreadable, fault) ==
    LET cleared == [w EXCEPT !.chunks = deleteAllChunks(w.chunks)]
        found == discoverFiles(fs)
        outs == LoopOutcomes(found, fs, unreadable)
        allChunks == LoopChunks(outs)
        ins == insertChunksBatch(cleared.chunks, w.seqNo, allChunks)
        stats == LoopStats(Len(found), outs, Len(allChunks))
        stored == [cleared EXCEPT !.chunks = ins.table, !.seqNo = ins.seqNo]
        withBM25 == [stored EXCEPT
                       !.bm25 = [exists |-> TRUE, docs |-> BM25Docs(ins.table)]]
        withVec == [withBM25 EXCEPT
                       !.vec = [exists |-> TRUE, keys |-> VectorKeys(ins.table)]]
    IN  IF fault \in OpenFaults THEN Thrown(w)
        ELSE IF fault \in {"parsers", "discover"} THEN Thrown(cleared)
        ELSE IF Len(found) = 0
        THEN Returned(cleared, [ZeroStats EXCEPT !.filesDiscovered = 0])
        ELSE IF Len(allChunks) = 0 THEN Returned(stored, stats)
        ELSE IF fault = "insert" THEN Thrown(cleared)
        ELSE IF fault = "bm25" \/ BM25Throws(ins.table) THEN Thrown(stored)
        ELSE IF fault = "embed" \/ VectorThrows(ins.table)
        THEN Thrown(withBM25)
        ELSE IF fault = "vector" THEN Thrown(withBM25)
        ELSE Returned(withVec, stats)

\* indexRepository, run to its return or throw from world w
indexRepository(w, fs, unreadable, fault) ==
    LET r == indexRepositoryTry(w, fs, unreadable, fault)
    IN [r EXCEPT !.handles = Finally(initDatabase(fault))]

\* existingChunks.length === 0 || existingChunks.some(hash differs)
needsReindex(table, p, content) ==
    LET existingChunks == getChunksByFile(table, p)
        currentHash == hashContent(content)
    IN \/ Len(existingChunks) = 0
       \/ \E i \in 1..Len(existingChunks) :
             existingChunks[i].contentHash # currentHash

RECURSIVE DeleteFiles(_, _)
DeleteFiles(table, paths) ==
    IF paths = <<>> THEN table
    ELSE DeleteFiles(deleteChunksByFile(table, Head(paths)), Tail(paths))

\* Mutant: the fallback returns the stats updateRepository initialised
\* itself, not those of the full run
fallbackWithOwnStats(w, fs, unreadable, fault) ==
    [indexRepository(w, fs, unreadable, fault) EXCEPT !.stats = ZeroStats]

\* The catch around git.diffSummary: after closing the handle,
\* return indexRepository({ ...options, incremental: false })
fallbackToFullIndex(w, fs, unreadable, fault) ==
    indexRepository(w, fs, unreadable, fault)

\* updateRepository from initDatabase to the return or throw of its try
\* block.  `changed` is what git.diffSummary(['HEAD']) lists; gitOk = FALSE
\* is its failure, on which the handle is closed and indexRepository runs.
updateRepositoryTry(w, fs, gitOk, changed, unreadable, fault) ==
    LET changedFilePaths == SelectSeq(AbsPathSeq, LAMBDA p : p \in changed)
        filesToReindex ==
            SelectSeq(changedFilePaths,
                      LAMBDA p : /\ fs[p] # NoFile
                                 /\ p \notin unreadable
                                 /\ needsReindex(w.chunks, p, fs[p]))
        deleted == [w EXCEPT
                      !.chunks = DeleteFiles(w.chunks, filesToReindex)]
        outs == LoopOutcomes(filesToReindex, fs, unreadable)
        allChunks == LoopChunks(outs)
        ins == insertChunksBatch(deleted.chunks, w.seqNo, allChunks)
        stats == LoopStats(Len(filesToReindex), outs, Len(allChunks))
        stored == [deleted EXCEPT !.chunks = ins.table, !.seqNo = ins.seqNo]
    IN  IF fault \in OpenFaults THEN Thrown(w)
        ELSE IF ~gitOk THEN fallbackToFullIndex(w, fs, unreadable, fault)
        ELSE IF Len(changedFilePaths) = 0 THEN Returned(w, ZeroStats)
        ELSE IF fault = "parsers" THEN Thrown(w)
        ELSE IF Len(filesToReindex) = 0 THEN Returned(w, ZeroStats)
        ELSE IF Len(allChunks) = 0 THEN Returned(stored, stats)
        ELSE IF fault = "insert" THEN Thrown(deleted)
        ELSE Returned(stored, stats)

\* updateRepository, run to its return or throw from world w: its own handle
\* and those the fallback run left open
updateRepository(w, fs, gitOk, changed, unreadable, fault) ==
    LET r == updateRepositoryTry(w, fs, gitOk, changed, unreadable, fault)
    IN [r EXCEPT !.handles = @ + Finally(initDatabase(fault))]

(***************************************************************************)
(* State machine                                                           *)
(***************************************************************************)
World ==
    [chunks |-> chunks, seqNo |-> sqliteSequence, bm25 |-> bm25File,
     vec |-> vecFile]

NoRun ==
    [op |-> "none", ok |-> TRUE, gitOk |-> TRUE, stats |-> ZeroStats,
     openHandles |-> 0]

EmptyWorld ==
    [chunks |-> <<>>, seqNo |-> 0, bm25 |-> [exists |-> FALSE, docs |-> <<>>],
     vec |-> [exists |-> FALSE, keys |-> <<>>]]

NoSearch ==
    [blank |-> TRUE, bm25Results |-> <<>>, vectorResults |-> <<>>,
     fusionLimit |-> 0]

\* export const SCHEMA_VERSION = 1
SCHEMA_VERSION == 1

\* The store's versioning state: PRAGMA user_version, the versions in table
\* schema_migrations, and the schema changes in place (<<version, "full">>
\* for a whole `up`, <<version, "partial">> for its first statements only)
BaselineDb == [userVersion |-> SCHEMA_VERSION, applied |-> {}, changes |-> {}]

\* No runMigrations call is looked at: an empty registry on a baseline store
NoSchema ==
    [before |-> BaselineDb, db |-> BaselineDb, migrations |-> <<>>,
     fault |-> [version |-> 0, stage |-> "none"],
     ran |-> FALSE, threw |-> FALSE, log |-> <<>>]

\* No command is running.  `handle` is the Chunk Store handle of the process
\* ("none", "open", "closed"), `dbRef` whether the module variable `db` of
\* ask.ts refers to it, `signal` the signal that ended the process
\* No discoverFiles call under consideration
NoWalker ==
    [sizes |-> <<>>, caller |-> "none", option |-> "absent", walked |-> FALSE,
     accepted |-> {}]

\* A ResponseCache just constructed over an empty cache directory: nothing
\* in memory, nothing on disk, node-persist not initialised
NoCache ==
    [memory |-> <<>>, disk |-> <<>>, diskInitialized |-> FALSE,
     op |-> [name |-> "none", key |-> 0, entry |-> "null",
           returned |-> "null", layer |-> "none"]]

\* No prompt
NoPrompt == [query |-> "", code |-> <<>>]

\* No generateAnswer call under consideration
NoAnswer ==
    [stage |-> "none", query |-> "", chunks |-> <<>>, provider |-> FALSE,
     noCache |-> FALSE, dryRun |-> FALSE, fullCodebase |-> <<>>,
     llmFails |-> FALSE, sent |-> NoPrompt, apiCalled |-> FALSE,
     promptShown |-> FALSE, cacheWritten |-> FALSE, servedCached |-> FALSE]

\* No reranker under consideration
NoRanker ==
    [stage |-> "none",
     env |-> [apiKey |-> FALSE, cohereInitThrows |-> FALSE,
              onnxLoads |-> FALSE, remoteFails |-> FALSE,
              localFails |-> FALSE],
     reranker |-> [mode |-> "none", cohere |-> FALSE, onnx |-> "missing"],
     candidates |-> <<>>, topN |-> 0, tried |-> <<>>, via |-> "none",
     threw |-> FALSE, result |-> <<>>]

NoCli ==
    [command |-> "none", at |-> "idle", handle |-> "none", dbRef |-> FALSE,
     changed |-> {}, signal |-> "none", exitCode |-> 0]

\* Nothing has been fused or searched yet
RetrievalIdle ==
    /\ pc = "idle"
    /\ fusionInput = <<>>
    /\ rrfK = DefaultK
    /\ fused = <<>>
    /\ search = NoSearch
    /\ results = <<>>
    /\ cli = NoCli

\* A fresh checkout: no files, no store rows, no index files
IndexEmpty ==
    /\ files = [p \in AbsPaths |-> NoFile]
    /\ chunks = EmptyWorld.chunks
    /\ sqliteSequence = EmptyWorld.seqNo
    /\ bm25File = EmptyWorld.bm25
    /\ vecFile = EmptyWorld.vec
    /\ run = NoRun

Init ==
    /\ IndexEmpty
    /\ RetrievalIdle
    /\ schema = NoSchema
    /\ walker = NoWalker
    /\ ranker = NoRanker
    /\ cache = NoCache
    /\ answer = NoAnswer

\* The user edits, creates or deletes a file of the working tree
EditFile ==
    \E p \in AbsPaths : \E c \in ContentsOf(p) \cup {NoFile} :
        /\ c # files[p]
        /\ files' = [files EXCEPT ![p] = c]
        /\ UNCHANGED <<chunks, sqliteSequence, bm25File, vecFile, run>>
        /\ UNCHANGED retrievalVars
        /\ UNCHANGED <<cli, schema, walker, ranker, cache, answer>>

Commit(r, op, gitOk) ==
    /\ r.seqNo <= MaxId
    /\ chunks' = r.chunks
    /\ sqliteSequence' = r.seqNo
    /\ bm25File' = r.bm25
    /\ vecFile' = r.vec
    /\ run' = [op |-> op, ok |-> r.ok, gitOk |-> gitOk, stats |-> r.stats,
               openHandles |-> r.handles]
    /\ UNCHANGED files
    /\ UNCHANGED retrievalVars
    /\ UNCHANGED <<cli, schema, walker, ranker, cache, answer>>

\* `oracle index full`
IndexRepository ==
    \E unreadable \in SUBSET AbsPaths, fault \in Faults :
        /\ fault # "none" => unreadable = {}
        /\ Commit(indexRepository(World, files, unreadable, fault),
                  "full", TRUE)

\* `oracle index update`
UpdateRepository ==
    \E gitOk \in BOOLEAN, changed \in SUBSET AbsPaths,
       unreadable \in SUBSET AbsPaths, fault \in Faults :
        /\ ~gitOk => changed = {}
        /\ fault # "none" => unreadable = {}
        /\ gitOk => fault \in UpdateFaults
        /\ Commit(updateRepository(World, files, gitOk, changed, unreadable,
                                   fault),
                  "update", gitOk)

Next == EditFile \/ IndexRepository \/ UpdateRepository

Spec == Init /\ [][Next]_vars

(***************************************************************************)
(* The per-file loops with files that cannot be read or parsed             *)
(***************************************************************************)
\* Working trees in which a file may also be one the parser throws on
LoopFileStates == [AbsPaths -> {WholeFn, OneFn, ParseThrows, NoFile}]

\* The files on which a run meets an error: those it cannot read and those
\* whose parsing throws, among the files it handles
ErrorFiles(handled, fs, unreadable) ==
    {p \in handled : /\ fs[p] # NoFile
                     /\ ExtOf(p) \in parserMap
                     /\ (p \in unreadable \/ fs[p] = ParseThrows)}

\* The files updateRepository puts in filesToReindex
FilesToReindex(w, fs, changed, unreadable) ==
    {p \in changed : /\ fs[p] # NoFile
                     /\ p \notin unreadable
                     /\ needsReindex(w.chunks, p, fs[p])}

InitLoop ==
    /\ RetrievalIdle
    /\ schema = NoSchema
    /\ walker = NoWalker
    /\ ranker = NoRanker
    /\ cache = NoCache
    /\ answer = NoAnswer
    /\ files \in LoopFileStates
    /\ chunks = EmptyWorld.chunks
    /\ sqliteSequence = EmptyWorld.seqNo
    /\ bm25File = EmptyWorld.bm25
    /\ vecFile = EmptyWorld.vec
    /\ run = NoRun

\* A run ends: its outcome, with the files it attempted in its loop and the
\* number of them that met an error
CommitLoop(r, op, looped, attempted, errors) ==
    /\ r.seqNo <= MaxId
    /\ chunks' = r.chunks
    /\ sqliteSequence' = r.seqNo
    /\ bm25File' = r.bm25
    /\ vecFile' = r.vec
    /\ run' = [op |-> op, ok |-> r.ok, gitOk |-> TRUE, stats |-> r.stats,
               openHandles |-> r.handles, looped |-> looped,
               attempted |-> attempted, errors |-> errors]
    /\ UNCHANGED files
    /\ UNCHANGED retrievalVars
    /\ UNCHANGED <<cli, schema, walker, ranker, cache, answer>>

\* `oracle index full` with nothing failing but single files
IndexFiles ==
    \E unreadable \in SUBSET AbsPaths :
        LET found == {p \in AbsPaths : files[p] # NoFile}
        IN CommitLoop(indexRepository(World, files, unreadable, "none"),
                      "full", found # {}, Cardinality(found),
                      Cardinality(ErrorFiles(found, files, unreadable)))

\* `oracle index update` with nothing failing but single files; the errors
\* are those of the hash comparison and of the re-index loop
UpdateFiles ==
    \E changed \in SUBSET AbsPaths, unreadable \in SUBSET AbsPaths :
        LET again == FilesToReindex(World, files, changed, unreadable)
        IN CommitLoop(updateRepository(World, files, TRUE, changed,
                                       unreadable, "none"),
                      "update", again # {}, Cardinality(again),
                      Cardinality(ErrorFiles(changed, files, unreadable)))

NextLoop == IndexFiles \/ UpdateFiles

SpecLoop == InitLoop /\ [][NextLoop]_vars

(***************************************************************************)
(* reciprocalRankFusion on its own: every input within the bounds          *)
(***************************************************************************)
\* The ids of the lists: two "file:line" strings, and a string and a number
\* that print alike
FusionIds == {Str("/r/a.ts:1"), Str("/r/b.ts:1"), Str("7"), Num(7)}

\* Ranked lists of at most MaxRank items; an id may recur in a list
RankedListsOver(ids) ==
    UNION {[1..n -> {[id |-> x] : x \in ids}] : n \in 0..MaxRank}

\* The lists of scenario S5: L1 = [A, B, C], L2 = [B, C, D]
S5Lists ==
    << <<[id |-> Str("A")], [id |-> Str("B")], [id |-> Str("C")]>>,
       <<[id |-> Str("B")], [id |-> Str("C")], [id |-> Str("D")]>> >>

\* Lists of at most two items over a string id and a number id
ShortLists ==
    UNION {[1..n -> {[id |-> x] : x \in {Str("/r/a.ts:1"), Num(7)}}] :
              n \in 0..2}

\* One list (RRF([L], k)), two (what hybridSearch passes), three short ones,
\* and scenario S5
FusionInputs ==
    {<<l>> : l \in RankedListsOver(FusionIds)}
        \cup {<<l1, l2>> : l1, l2 \in RankedListsOver(FusionIds)}
        \cup {<<l1, l2, l3>> : l1, l2, l3 \in ShortLists}
        \cup {S5Lists}

InitRRF ==
    /\ IndexEmpty
    /\ pc = "idle"
    /\ fusionInput \in FusionInputs
    /\ rrfK \in SmoothingFactors
    /\ fused = <<>>
    /\ search = NoSearch
    /\ results = <<>>
    /\ cli = NoCli
    /\ schema = NoSchema
    /\ walker = NoWalker
    /\ ranker = NoRanker
    /\ cache = NoCache
    /\ answer = NoAnswer

\* A caller invokes reciprocalRankFusion(fusionInput, { k: rrfK })
Fuse ==
    /\ pc = "idle"
    /\ pc' = "fused"
    /\ fused' = reciprocalRankFusion(fusionInput, rrfK)
    /\ UNCHANGED <<fusionInput, rrfK, search, results, cli>>
    /\ UNCHANGED indexVars

NextRRF == Fuse

SpecRRF == InitRRF /\ [][NextRRF]_vars

(***************************************************************************)
(* Retriever: hybridSearch and mergeResults                                *)
(***************************************************************************)
\* const fusionLimit = options.fusionLimit ?? 30
DefaultFusionLimit == 30

Min(a, b) == IF a < b THEN a ELSE b

\* One hydrated result: the chunk's fields with the fused score
Unified(chunk, score) ==
    [id |-> chunk.id, filePath |-> chunk.filePath,
     symbolName |-> chunk.symbolName, content |-> chunk.content,
     startLine |-> chunk.startLine, endLine |-> chunk.endLine,
     score |-> score]

\* Mutant: the results are built by walking the rows the store returned,
\* not the fused list
mergeResultsInStoreOrder(table, rrfResults) ==
    LET ids == [i \in 1..Len(rrfResults) |-> rrfResults[i].id]
        rows == getChunksByIds(table, ids)
    IN [n \in 1..Len(rows) |->
          Unified(rows[n],
                  rrfResults[CHOOSE i \in 1..Len(rrfResults) :
                                 rrfResults[i].id = rows[n].id].score)]

\* mergeResults: join the fused list with the rows of getChunksByIds through
\* a Map by id, in the order of the fused list; an id without a row is
\* skipped
mergeResults(table, rrfResults) ==
    LET ids == [i \in 1..Len(rrfResults) |-> rrfResults[i].id]
        rows == getChunksByIds(table, ids)
        found == SelectSeq(rrfResults,
                     LAMBDA r : \E n \in 1..Len(rows) : rows[n].id = r.id)
    IN [i \in 1..Len(found) |->
          Unified(rows[CHOOSE n \in 1..Len(rows) : rows[n].id = found[i].id],
                  found[i].score)]

\* SELECT id FROM chunks WHERE file_path = ? AND start_line = ? LIMIT 1
\* (0 stands for no row; the first matching row in rowid order otherwise)
SelectIdByFileLine(table, filePath, startLine) ==
    LET rows == SelectSeq(table, LAMBDA r : r.filePath = filePath
                                            /\ r.startLine = startLine)
    IN IF Len(rows) = 0 THEN 0 ELSE rows[1].id

\* hybridSearch after its two searches returned bm25Results, vectorResults
hybridSearch(table, bm25Results, vectorResults, fusionLimit, k) ==
    LET bm25Formatted ==
            [i \in 1..Len(bm25Results) |-> [id |-> Str(bm25Results[i].id)]]
        vectorFormatted ==
            [i \in 1..Len(vectorResults) |-> [id |-> Num(vectorResults[i].id)]]
        fusedResults ==
            reciprocalRankFusion(<<bm25Formatted, vectorFormatted>>, k)
        topFused ==
            SubSeq(fusedResults, 1, Min(fusionLimit, Len(fusedResults)))
        bm25Ids == {Str(bm25Results[i].id) : i \in 1..Len(bm25Results)}
        bm25FusedIds ==
            SelectSeq(topFused,
                      LAMBDA r : r.id.type = "string" /\ r.id \in bm25Ids)
        \* bm25IdMap.get(stringId), 0 for undefined
        bm25IdMap(stringId) ==
            IF /\ Len(bm25FusedIds) > 0
               /\ \E i \in 1..Len(bm25Results) : bm25Results[i].id = stringId
            THEN LET info == bm25Results[CHOOSE i \in 1..Len(bm25Results) :
                                            bm25Results[i].id = stringId]
                 IN SelectIdByFileLine(table, info.filePath, info.startLine)
            ELSE 0
        numericId(r) ==
            IF r.id.type = "string" THEN bm25IdMap(r.id.str) ELSE r.id.num
        kept == SelectSeq(topFused,
                    LAMBDA r : r.id.type = "string" => numericId(r) # 0)
        numericFusedResults ==
            [i \in 1..Len(kept) |->
                [id |-> numericId(kept[i]), score |-> kept[i].score]]
    IN mergeResults(table, numericFusedResults)

\* Orama / USearch hits: a ranking without repeats of at most MaxRank of the
\* records the loaded index holds, in whatever order the query ranks them
Rankings(records) ==
    LET S == {records[i] : i \in 1..Len(records)}
    IN {r \in UNION {[1..n -> S] : n \in 0..Min(MaxRank, Len(records))} :
           \A i, j \in 1..Len(r) : i # j => r[i] # r[j]}

\* searchBM25 maps a hit to { id, filePath, startLine, ... }
BM25Result(doc) ==
    [id |-> doc.id, filePath |-> doc.file_path, startLine |-> doc.start_line]

\* searchVector maps a key to { id: Number(key), score }
VectorResult(key) == [id |-> key]

FusionLimits == {0, 1, 2, 3, DefaultFusionLimit}

\* The working trees of the model
FileStates ==
    {f \in [AbsPaths -> FileContents \cup {NoFile}] :
        \A p \in AbsPaths : f[p] \in ContentsOf(p) \cup {NoFile}}

\* An index directory as `oracle index full`, optionally followed by one more
\* `oracle index update` or `oracle index full`, leaves it
InitSearch ==
    /\ RetrievalIdle
    /\ schema = NoSchema
    /\ walker = NoWalker
    /\ ranker = NoRanker
    /\ cache = NoCache
    /\ answer = NoAnswer
    /\ \E fs1 \in FileStates, fs2 \in FileStates,
          second \in {"none", "update", "full"},
          changed \in SUBSET AbsPaths :
          \E w1 \in {indexRepository(EmptyWorld, fs1, {}, "none")} :
          \E w2 \in {CASE second = "none" -> w1
                       [] second = "update" ->
                            updateRepository(w1, fs2, TRUE, changed, {}, "none")
                       [] second = "full" ->
                            indexRepository(w1, fs2, {}, "none")} :
             /\ second = "none" => (fs2 = fs1 /\ changed = {})
             /\ second = "full" => changed = {}
             /\ w1.ok /\ w2.ok
             /\ w2.bm25.exists /\ w2.vec.exists
             /\ w2.seqNo <= MaxId
             /\ files = fs2
             /\ chunks = w2.chunks
             /\ sqliteSequence = w2.seqNo
             /\ bm25File = w2.bm25
             /\ vecFile = w2.vec
             /\ run = [op |-> IF second = "update" THEN "update" ELSE "full",
                       ok |-> TRUE, gitOk |-> TRUE, stats |-> w2.stats,
                       openHandles |-> w2.handles]

\* `oracle ask`: both index files load, the two searches return their hits
\* and hybridSearch builds its result (an empty query returns [] at once)
HybridSearch ==
    /\ pc = "idle"
    /\ bm25File.exists /\ vecFile.exists
    /\ \E blank \in BOOLEAN,
          bm25Hits \in Rankings(bm25File.docs),
          vectorHits \in Rankings(vecFile.keys),
          fusionLimit \in FusionLimits,
          k \in SmoothingFactors :
          LET bm25Results ==
                  [i \in 1..Len(bm25Hits) |-> BM25Result(bm25Hits[i])]
              vectorResults ==
                  [i \in 1..Len(vectorHits) |-> VectorResult(vectorHits[i])]
          IN /\ blank => (bm25Hits = <<>> /\ vectorHits = <<>>
                            /\ fusionLimit = DefaultFusionLimit /\ k = DefaultK)
             /\ search' = [blank |-> blank, bm25Results |-> bm25Results,
                           vectorResults |-> vectorResults,
                           fusionLimit |-> fusionLimit]
             /\ rrfK' = k
             /\ results' = IF blank THEN <<>>
                           ELSE hybridSearch(chunks, bm25Results,
                                             vectorResults, fusionLimit, k)
    /\ pc' = "searched"
    /\ UNCHANGED <<fusionInput, fused, cli>>
    /\ UNCHANGED indexVars

NextSearch == HybridSearch

SpecSearch == InitSearch /\ [][NextSearch]_vars

(***************************************************************************)
(* The `oracle` process: commands run from await to await, and a signal     *)
(* handler runs between two of them                                        *)
(***************************************************************************)
\* process.exit(130) of the SIGINT handlers, process.exit(143) of the SIGTERM
\* handlers
ExitInterrupt == 130
ExitTerminate == 143

Signals == {"SIGINT", "SIGTERM"}

\* A store built by an earlier `oracle index full`, and any working tree
InitSignal ==
    /\ RetrievalIdle
    /\ schema = NoSchema
    /\ walker = NoWalker
    /\ ranker = NoRanker
    /\ cache = NoCache
    /\ answer = NoAnswer
    /\ run = NoRun
    /\ \E fs1 \in FileStates, fs2 \in FileStates :
          LET w == indexRepository(EmptyWorld, fs1, {}, "none")
          IN /\ w.ok
             /\ files = fs2
             /\ chunks = w.chunks
             /\ sqliteSequence = w.seqNo
             /\ bm25File = w.bm25
             /\ vecFile = w.vec

\* What every step of a command leaves alone
CliFrame ==
    /\ UNCHANGED <<files, run, schema, walker, ranker, cache, answer>>
    /\ UNCHANGED retrievalVars

\* The command returns or throws: `finally` closes the handle, the action
\* prints and the process ends with the code
Finish(code) ==
    cli' = [cli EXCEPT !.at = "exited", !.handle = "closed",
                       !.exitCode = code]

\* `oracle index full` up to its first await: initDatabase, runMigrations,
\* deleteAllChunks, then `await initParser(...)`
StartFull ==
    /\ cli.at = "idle"
    /\ cli' = [cli EXCEPT !.command = "full", !.at = "parsers",
                          !.handle = "open"]
    /\ chunks' = deleteAllChunks(chunks)
    /\ UNCHANGED <<sqliteSequence, bm25File, vecFile>>
    /\ CliFrame

\* Parsers are loaded, `await discoverFiles(...)` returns
Discover ==
    /\ cli.at = "parsers"
    /\ IF Len(discoverFiles(files)) = 0
       THEN Finish(0)
       ELSE cli' = [cli EXCEPT !.at = "files"]
    /\ UNCHANGED <<chunks, sqliteSequence, bm25File, vecFile>>
    /\ CliFrame

\* The per-file loop (`await readFile`) ends and insertChunksBatch runs
ProcessFiles ==
    /\ cli.at = "files"
    /\ LET allChunks ==
               LoopChunks(LoopOutcomes(discoverFiles(files), files, {}))
           ins == insertChunksBatch(chunks, sqliteSequence, allChunks)
       IN /\ ins.seqNo <= MaxId
          /\ chunks' = ins.table
          /\ sqliteSequence' = ins.seqNo
          /\ IF Len(allChunks) = 0
             THEN Finish(0)
             ELSE cli' = [cli EXCEPT !.at = "bm25"]
    /\ UNCHANGED <<bm25File, vecFile>>
    /\ CliFrame

\* `await buildBM25Index(db)`, `await saveBM25Index(...)`
SaveBM25 ==
    /\ cli.at = "bm25"
    /\ IF BM25Throws(chunks)
       THEN Finish(1) /\ UNCHANGED bm25File
       ELSE /\ bm25File' = [exists |-> TRUE, docs |-> BM25Docs(chunks)]
            /\ cli' = [cli EXCEPT !.at = "vector"]
    /\ UNCHANGED <<chunks, sqliteSequence, vecFile>>
    /\ CliFrame

\* `await initEmbedder()`, `await buildVectorIndex(...)`,
\* `await saveVectorIndex(...)`, return
SaveVector ==
    /\ cli.at = "vector"
    /\ IF VectorThrows(chunks)
       THEN Finish(1) /\ UNCHANGED vecFile
       ELSE /\ vecFile' = [exists |-> TRUE, keys |-> VectorKeys(chunks)]
            /\ Finish(0)
    /\ UNCHANGED <<chunks, sqliteSequence, bm25File>>
    /\ CliFrame

\* `oracle index update` up to its first await: initDatabase, runMigrations,
\* then `await git.diffSummary(['HEAD'])`
StartUpdate ==
    /\ cli.at = "idle"
    /\ cli' = [cli EXCEPT !.command = "update", !.at = "git",
                          !.handle = "open"]
    /\ UNCHANGED <<chunks, sqliteSequence, bm25File, vecFile>>
    /\ CliFrame

\* git answers: on failure the handle is closed and indexRepository opens its
\* own and clears the store; with no changed path the run returns; otherwise
\* the parsers load and the hash comparison (`await readFile`) begins
DetectChanges ==
    /\ cli.at = "git"
    /\ \E gitOk \in BOOLEAN, changed \in SUBSET AbsPaths :
          /\ ~gitOk => changed = {}
          /\ IF ~gitOk
             THEN /\ cli' = [cli EXCEPT !.at = "parsers", !.handle = "open"]
                  /\ chunks' = deleteAllChunks(chunks)
             ELSE /\ IF changed = {}
                     THEN Finish(0)
                     ELSE cli' = [cli EXCEPT !.at = "hashing",
                                             !.changed = changed]
                  /\ UNCHANGED chunks
    /\ UNCHANGED <<sqliteSequence, bm25File, vecFile>>
    /\ CliFrame

\* The files to re-index are known and their rows are deleted
CompareHashes ==
    /\ cli.at = "hashing"
    /\ LET filesToReindex ==
               SelectSeq(AbsPathSeq,
                         LAMBDA p : /\ p \in cli.changed
                                    /\ files[p] # NoFile
                                    /\ needsReindex(chunks, p, files[p]))
       IN IF Len(filesToReindex) = 0
          THEN Finish(0) /\ UNCHANGED chunks
          ELSE /\ chunks' = DeleteFiles(chunks, filesToReindex)
               /\ cli' = [cli EXCEPT
                            !.at = "reindex",
                            !.changed = {filesToReindex[i] :
                                            i \in 1..Len(filesToReindex)}]
    /\ UNCHANGED <<sqliteSequence, bm25File, vecFile>>
    /\ CliFrame

\* The re-index loop (`await readFile`) ends, insertChunksBatch runs, return
Reindex ==
    /\ cli.at = "reindex"
    /\ LET filesToReindex ==
               SelectSeq(AbsPathSeq, LAMBDA p : p \in cli.changed)
           allChunks == LoopChunks(LoopOutcomes(filesToReindex, files, {}))
           ins == insertChunksBatch(chunks, sqliteSequence, allChunks)
       IN /\ ins.seqNo <= MaxId
          /\ chunks' = ins.table
          /\ sqliteSequence' = ins.seqNo
    /\ Finish(0)
    /\ UNCHANGED <<bm25File, vecFile>>
    /\ CliFrame

\* `oracle ask` up to its first await, `await loadConfig()`: no handle yet
StartAsk ==
    /\ cli.at = "idle"
    /\ cli' = [cli EXCEPT !.command = "ask", !.at = "config"]
    /\ UNCHANGED <<chunks, sqliteSequence, bm25File, vecFile>>
    /\ CliFrame

\* db = initDatabase(DEFAULT_DB_PATH), then `await loadBM25Index(...)`
AskOpen ==
    /\ cli.at = "config"
    /\ cli' = [cli EXCEPT !.at = "loading", !.handle = "open",
                          !.dbRef = TRUE]
    /\ UNCHANGED <<chunks, sqliteSequence, bm25File, vecFile>>
    /\ CliFrame

\* The index files load, or one is missing and the action calls
\* process.exit(1); then `await hybridSearch(...)`
AskLoad ==
    /\ cli.at = "loading"
    /\ IF bm25File.exists /\ vecFile.exists
       THEN cli' = [cli EXCEPT !.at = "searching"]
       ELSE cli' = [cli EXCEPT !.at = "exited", !.exitCode = 1]
    /\ UNCHANGED <<chunks, sqliteSequence, bm25File, vecFile>>
    /\ CliFrame

\* The search returns, the answer is generated and the action returns
AskAnswer ==
    /\ cli.at = "searching"
    /\ cli' = [cli EXCEPT !.at = "exited", !.exitCode = 0]
    /\ UNCHANGED <<chunks, sqliteSequence, bm25File, vecFile>>
    /\ CliFrame

\* A SIGINT or SIGTERM handler runs while the command awaits.  The handlers
\* of `index full` and `index update` call a cleanupHandler that does
\* nothing; those of ask.ts close `db` when it is set; all call process.exit
Signal ==
    /\ cli.at \notin {"idle", "exited"}
    /\ \E sig \in Signals :
          cli' = [cli EXCEPT
                    !.at = "exited",
                    !.signal = sig,
                    !.handle = IF cli.dbRef THEN "closed" ELSE cli.handle,
                    !.exitCode = IF sig = "SIGINT" THEN ExitInterrupt
                                 ELSE ExitTerminate]
    /\ UNCHANGED <<chunks, sqliteSequence, bm25File, vecFile>>
    /\ CliFrame

NextSignal ==
    \/ StartFull \/ Discover \/ ProcessFiles \/ SaveBM25 \/ SaveVector
    \/ StartUpdate \/ DetectChanges \/ CompareHashes \/ Reindex
    \/ StartAsk \/ AskOpen \/ AskLoad \/ AskAnswer
    \/ Signal

SpecSignal == InitSignal /\ [][NextSignal]_vars

(***************************************************************************)
(* Schema migrations: runMigrations                                        *)
(***************************************************************************)
\* migrations.filter((m) => m.version > currentVersion)
PendingMigrations(migrations, currentVersion) ==
    SelectSeq(migrations, LAMBDA m : m.version > currentVersion)

\* One step of pendingMigrations.sort((a, b) => a.version - b.version)
InsertByVersion(sorted, m) ==
    LET ahead == Cardinality({i \in 1..Len(sorted) :
                                 sorted[i].version <= m.version})
    IN SubSeq(sorted, 1, ahead) \o <<m>> \o SubSeq(sorted, ahead + 1, Len(sorted))

RECURSIVE SortByVersion(_, _)
SortByVersion(sorted, rest) ==
    IF rest = <<>> THEN sorted
    ELSE SortByVersion(InsertByVersion(sorted, Head(rest)), Tail(rest))

\* The body of the loop for one migration: migration.up(db), the INSERT into
\* schema_migrations, PRAGMA user_version; each statement commits on its
\* own.  fault.stage says where the migration fault.version throws: "up"
\* (before its first statement), "partial" (after it), "insert", "pragma".
\* The INSERT also throws when the version is already in the table
applyMigration(db, m, fault) ==
    LET here(stage) == fault.version = m.version /\ fault.stage = stage
        upPart == [db EXCEPT !.changes = @ \cup {<<m.version, "partial">>}]
        upDone == [db EXCEPT !.changes = @ \cup {<<m.version, "full">>}]
        recorded == [upDone EXCEPT !.applied = @ \cup {m.version}]
        versioned == [recorded EXCEPT !.userVersion = m.version]
    IN IF here("up") THEN [db |-> db, threw |-> TRUE]
       ELSE IF here("partial") THEN [db |-> upPart, threw |-> TRUE]
       ELSE IF here("insert") \/ m.version \in db.applied
       THEN [db |-> upDone, threw |-> TRUE]
       ELSE IF here("pragma") THEN [db |-> recorded, threw |-> TRUE]
       ELSE [db |-> versioned, threw |-> FALSE]

\* for (const migration of pendingMigrations) { try { ... } catch { throw } }
RECURSIVE ApplyPending(_, _, _, _)
ApplyPending(db, pending, fault, log) ==
    IF pending = <<>> THEN [db |-> db, threw |-> FALSE, log |-> log]
    ELSE LET step == applyMigration(db, Head(pending), fault)
         IN IF step.threw
            THEN [db |-> step.db, threw |-> TRUE, log |-> log]
            ELSE ApplyPending(step.db, Tail(pending), fault,
                              Append(log, Head(pending).version))

\* runMigrations on a store with the registry `migrations`; log lists the
\* versions it applied, in order
runMigrations(db, migrations, fault) ==
    ApplyPending(db,
                 SortByVersion(<<>>, PendingMigrations(migrations,
                                                       db.userVersion)),
                 fault, <<>>)

\* Versions of registered migrations: SCHEMA_VERSION + 1 .. MaxVersion
MigrationVersions == (SCHEMA_VERSION + 1)..MaxVersion

\* Registries: migrations with different versions, in any order
Registries ==
    {r \in UNION {[1..n -> [version : MigrationVersions]] :
                     n \in 0..Cardinality(MigrationVersions)} :
        \A i, j \in 1..Len(r) : i # j => r[i].version # r[j].version}

MigrationFaults ==
    {[version |-> 0, stage |-> "none"]}
        \cup [version : MigrationVersions,
              stage : {"up", "partial", "insert", "pragma"}]

\* A store on which the migrations of the registry up to some version were
\* applied by an earlier run; initDatabase, which runs before runMigrations,
\* may since have set user_version back to SCHEMA_VERSION
InitMigrations ==
    /\ IndexEmpty
    /\ RetrievalIdle
    /\ walker = NoWalker
    /\ ranker = NoRanker
    /\ cache = NoCache
    /\ answer = NoAnswer
    /\ \E registry \in Registries, fault \in MigrationFaults,
          earlier \in SCHEMA_VERSION..MaxVersion, reset \in BOOLEAN :
          LET done == {registry[i].version : i \in 1..Len(registry)}
                         \cap (SCHEMA_VERSION..earlier)
              db == [userVersion |-> IF reset THEN SCHEMA_VERSION ELSE earlier,
                     applied |-> done,
                     changes |-> {<<v, "full">> : v \in done}]
          IN schema = [before |-> db, db |-> db, migrations |-> registry,
                       fault |-> fault, ran |-> FALSE, threw |-> FALSE,
                       log |-> <<>>]

\* runMigrations(db) is called
RunMigrations ==
    /\ ~schema.ran
    /\ LET r == runMigrations(schema.db, schema.migrations, schema.fault)
       IN schema' = [schema EXCEPT !.db = r.db, !.ran = TRUE,
                                   !.threw = r.threw, !.log = r.log]
    /\ UNCHANGED <<files, chunks, sqliteSequence, bm25File, vecFile, run, cli>>
    /\ UNCHANGED <<walker, ranker, cache, answer>>
    /\ UNCHANGED retrievalVars

NextMigrations == RunMigrations

SpecMigrations == InitMigrations /\ [][NextMigrations]_vars

\* The last statement of initDatabase on an existing store: CREATE TABLE IF
\* NOT EXISTS changes nothing, PRAGMA user_version = SCHEMA_VERSION is
\* unconditional
setSchemaVersion(db) == [db EXCEPT !.userVersion = SCHEMA_VERSION]

\* A store file just created by initDatabase, and a registry
InitOpens ==
    /\ IndexEmpty
    /\ RetrievalIdle
    /\ walker = NoWalker
    /\ ranker = NoRanker
    /\ cache = NoCache
    /\ answer = NoAnswer
    /\ \E registry \in Registries, fault \in MigrationFaults :
          schema = [before |-> BaselineDb, db |-> BaselineDb,
                    migrations |-> registry, fault |-> fault,
                    ran |-> FALSE, threw |-> FALSE, log |-> <<>>]

SchemaFrame ==
    /\ UNCHANGED <<files, chunks, sqliteSequence, bm25File, vecFile, run, cli>>
    /\ UNCHANGED <<walker, ranker, cache, answer>>
    /\ UNCHANGED retrievalVars

\* db = initDatabase(dbPath) on the store as the last call left it
OpenStore ==
    /\ schema' = [schema EXCEPT !.before = schema.db,
                                !.db = setSchemaVersion(schema.db),
                                !.ran = FALSE, !.threw = FALSE, !.log = <<>>]
    /\ SchemaFrame

\* runMigrations(db) on the store as the last call left it; the fault of
\* the registry strikes or not
MigrateStore ==
    /\ \E fault \in {schema.fault, [version |-> 0, stage |-> "none"]} :
          \E r \in {runMigrations(schema.db, schema.migrations, fault)} :
              schema' = [schema EXCEPT !.before = schema.db, !.db = r.db,
                                       !.ran = TRUE, !.threw = r.threw,
                                       !.log = r.log]
    /\ SchemaFrame

NextOpens == OpenStore \/ MigrateStore

SpecOpens == InitOpens /\ [][NextOpens]_vars

(***************************************************************************)
(* The walker's size filter: discoverFiles                                 *)
(***************************************************************************)
\* DEFAULT_CONFIG.maxFileSizeBytes
DefaultMaxFileSizeBytes == 500 * 1024

\* JavaScript values of the option maxFileSizeBytes: a number, undefined, or
\* no such key
Number(n) == [kind |-> "number", n |-> n]
Undefined == [kind |-> "undefined", n |-> 0]
Absent == [kind |-> "absent", n |-> 0]

\* Sizes of files in bytes, around a limit of 1 KB and around the default
FileSizes ==
    {0, 1024, 1025, DefaultMaxFileSizeBytes, DefaultMaxFileSizeBytes + 1}

\* What a caller may put in the option
SizeOptions == {Absent, Undefined, Number(1024),
                Number(DefaultMaxFileSizeBytes)}

\* Who calls discoverFiles: indexRepository with its IndexOptions, or a
\* caller that hands over the configuration object itself
WalkerCallers == {"indexRepository", "discoverFiles"}

\* The second argument discoverFiles receives.  indexRepository always
\* builds { maxFileSizeBytes: options.maxFileSizeBytes }: the key is there,
\* with the value undefined when the option is missing
ConfigFrom(caller, option) ==
    IF caller = "indexRepository"
    THEN [hasKey |-> TRUE,
          value |-> IF option.kind = "number" THEN option ELSE Undefined]
    ELSE [hasKey |-> option.kind # "absent", value |-> option]

\* { ...DEFAULT_CONFIG, ...config }: an own key of config overrides the
\* default, whatever its value
fullConfig(config) ==
    IF config.hasKey THEN config.value ELSE Number(DefaultMaxFileSizeBytes)

\* fileStat.size > fullConfig.maxFileSizeBytes; undefined converts to NaN,
\* and every comparison with NaN is false
ExceedsLimit(size, limit) == limit.kind = "number" /\ size > limit.n

\* Stage 4 of discoverFiles on text files that no ignore rule matches
AcceptedFiles(sizes, config) ==
    {p \in DOMAIN sizes : ~ExceedsLimit(sizes[p], fullConfig(config))}

InitWalker ==
    /\ IndexEmpty
    /\ RetrievalIdle
    /\ schema = NoSchema
    /\ ranker = NoRanker
    /\ cache = NoCache
    /\ answer = NoAnswer
    /\ \E sizes \in [AbsPaths -> FileSizes], caller \in WalkerCallers,
          option \in SizeOptions :
          walker = [sizes |-> sizes, caller |-> caller, option |-> option,
                    walked |-> FALSE, accepted |-> {}]

\* discoverFiles runs
Walk ==
    /\ ~walker.walked
    /\ walker' = [walker EXCEPT
                    !.walked = TRUE,
                    !.accepted = AcceptedFiles(walker.sizes,
                                               ConfigFrom(walker.caller,
                                                          walker.option))]
    /\ UNCHANGED <<files, chunks, sqliteSequence, bm25File, vecFile, run, cli>>
    /\ UNCHANGED <<schema, ranker, cache, answer>>
    /\ UNCHANGED retrievalVars

NextWalker == Walk

SpecWalker == InitWalker /\ [][NextWalker]_vars

(***************************************************************************)
(* The reranker: initReranker and rerank                                   *)
(***************************************************************************)
\* initONNXReranker: the session and tokenizer, or { session: null,
\* tokenizer: null } when loading throws
initONNXReranker(onnxLoads) == IF onnxLoads THEN "session" ELSE "null"

\* initReranker: with a key and a Cohere client, { mode: 'cohere', cohere }
\* and no onnx member; otherwise { mode: 'onnx', onnx }
initReranker(env) ==
    IF env.apiKey /\ ~env.cohereInitThrows
    THEN [mode |-> "cohere", cohere |-> TRUE, onnx |-> "missing"]
    ELSE [mode |-> "onnx", cohere |-> FALSE,
          onnx |-> initONNXReranker(env.onnxLoads)]

\* candidates.slice(0, topN).map((c) => ({ id: c.id, score: 1.0 }))
FirstTopN(candidates, topN) ==
    [i \in 1..Min(topN, Len(candidates)) |->
        [id |-> candidates[i], score |-> "1.0"]]

\* What a model returns: the topN best by relevance.  The model of the
\* checks ranks the candidates in reverse input order
ModelRanking(candidates, topN) ==
    [i \in 1..Min(topN, Len(candidates)) |->
        [id |-> candidates[Len(candidates) + 1 - i], score |-> "relevance"]]

\* rerankWithCohere: one call to the hosted reranker; a failure of the call
\* is a throw
rerankWithCohere(candidates, topN, remoteFails) ==
    IF remoteFails THEN [threw |-> TRUE, result |-> <<>>]
    ELSE [threw |-> FALSE, result |-> ModelRanking(candidates, topN)]

\* The try block of rerankWithONNX: tokenize, session.run, sort, slice
onnxInference(candidates, topN, localFails) ==
    IF localFails THEN [threw |-> TRUE, result |-> <<>>]
    ELSE [threw |-> FALSE, result |-> ModelRanking(candidates, topN)]

\* Mutant: rerankWithONNX without the catch around its inference
rerankWithONNXUncaught(onnx, candidates, topN, localFails) ==
    LET run1 == onnxInference(candidates, topN, localFails)
    IN IF onnx = "null"
       THEN [tried |-> <<>>, via |-> "passthrough", threw |-> FALSE,
             result |-> FirstTopN(candidates, topN)]
       ELSE [tried |-> <<"local">>, via |-> "local", threw |-> run1.threw,
             result |-> run1.result]

\* rerankWithONNX: passthrough without a session, and from its own catch
rerankWithONNX(onnx, candidates, topN, localFails) ==
    LET run1 == onnxInference(candidates, topN, localFails)
    IN IF onnx = "null"
       THEN [tried |-> <<>>, via |-> "passthrough", threw |-> FALSE,
             result |-> FirstTopN(candidates, topN)]
       ELSE IF run1.threw
       THEN [tried |-> <<"local">>, via |-> "passthrough", threw |-> FALSE,
             result |-> FirstTopN(candidates, topN)]
       ELSE [tried |-> <<"local">>, via |-> "local", threw |-> FALSE,
             result |-> run1.result]

\* Mutant: the early return for few candidates tests < instead of <=
rerankBypassBelowTopN(reranker, candidates, topN, env) ==
    LET remote == reranker.mode = "cohere" /\ reranker.cohere
        before == IF remote THEN <<"remote">> ELSE <<>>
        cohere == rerankWithCohere(candidates, topN, env.remoteFails)
        local == rerankWithONNX(reranker.onnx, candidates, topN,
                                env.localFails)
    IN IF Len(candidates) = 0
       THEN [tried |-> <<>>, via |-> "empty", threw |-> FALSE,
             result |-> <<>>]
       ELSE IF Len(candidates) < topN
       THEN [tried |-> <<>>, via |-> "bypass", threw |-> FALSE,
             result |-> FirstTopN(candidates, Len(candidates))]
       ELSE IF remote /\ ~cohere.threw
       THEN [tried |-> <<"remote">>, via |-> "remote", threw |-> FALSE,
             result |-> cohere.result]
       ELSE IF reranker.onnx # "missing"
       THEN [local EXCEPT !.tried = before \o @]
       ELSE [tried |-> before, via |-> "passthrough", threw |-> FALSE,
             result |-> FirstTopN(candidates, topN)]

\* rerank: the modes it tried, the mode that produced the result, whether it
\* threw, the result.  The call of rerankWithCohere is inside a try whose
\* catch falls through; the call of rerankWithONNX is not inside one
rerank(reranker, candidates, topN, env) ==
    LET remote == reranker.mode = "cohere" /\ reranker.cohere
        before == IF remote THEN <<"remote">> ELSE <<>>
        cohere == rerankWithCohere(candidates, topN, env.remoteFails)
        local == rerankWithONNX(reranker.onnx, candidates, topN,
                                env.localFails)
    IN IF Len(candidates) = 0
       THEN [tried |-> <<>>, via |-> "empty", threw |-> FALSE,
             result |-> <<>>]
       ELSE IF Len(candidates) <= topN
       THEN [tried |-> <<>>, via |-> "bypass", threw |-> FALSE,
             result |-> FirstTopN(candidates, Len(candidates))]
       ELSE IF remote /\ ~cohere.threw
       THEN [tried |-> <<"remote">>, via |-> "remote", threw |-> FALSE,
             result |-> cohere.result]
       ELSE IF reranker.onnx # "missing"
       THEN [local EXCEPT !.tried = before \o @]
       ELSE [tried |-> before, via |-> "passthrough", threw |-> FALSE,
             result |-> FirstTopN(candidates, topN)]

\* What the surroundings decide: whether a Cohere key is configured, whether
\* creating its client throws, whether the ONNX model can be loaded, whether
\* the remote call and the local inference throw
RerankEnvs ==
    [apiKey : BOOLEAN, cohereInitThrows : BOOLEAN, onnxLoads : BOOLEAN,
     remoteFails : BOOLEAN, localFails : BOOLEAN]

CandidateLists == {[i \in 1..n |-> i] : n \in 0..MaxCandidates}

TopNs == {1, 2}

InitRerank ==
    /\ IndexEmpty
    /\ RetrievalIdle
    /\ schema = NoSchema
    /\ walker = NoWalker
    /\ cache = NoCache
    /\ answer = NoAnswer
    /\ \E env \in RerankEnvs, candidates \in CandidateLists, topN \in TopNs :
          ranker = [NoRanker EXCEPT !.stage = "start", !.env = env,
                                    !.candidates = candidates,
                                    !.topN = topN]

RerankFrame ==
    /\ UNCHANGED <<files, chunks, sqliteSequence, bm25File, vecFile, run, cli>>
    /\ UNCHANGED <<schema, walker, cache, answer>>
    /\ UNCHANGED retrievalVars

\* const reranker = await initReranker(config.cohere?.apiKey)
InitReranker ==
    /\ ranker.stage = "start"
    /\ ranker' = [ranker EXCEPT !.stage = "ready",
                                !.reranker = initReranker(ranker.env)]
    /\ RerankFrame

\* await rerank(reranker, question, rerankCandidates, topK)
Rerank ==
    /\ ranker.stage = "ready"
    /\ LET r == rerank(ranker.reranker, ranker.candidates, ranker.topN,
                       ranker.env)
       IN ranker' = [ranker EXCEPT !.stage = "done", !.tried = r.tried,
                                   !.via = r.via, !.threw = r.threw,
                                   !.result = r.result]
    /\ RerankFrame

NextRerank == InitReranker \/ Rerank

SpecRerank == InitRerank /\ [][NextRerank]_vars

(***************************************************************************)
(* ResponseCache: LRU memory layer over node-persist                       *)
(***************************************************************************)
\* Cache keys (SHA-256 digests in the source): one more than memory holds
CacheKeys == 1..(MemoryMax + 1)

\* Cached responses
CacheEntries == {"answer 1", "answer 2"}

\* What get returns when neither layer has the key
Null == "null"

\* Position of a key in the memory layer (least recently used first), or 0
MemoryIndex(memory, key) ==
    IF \E i \in 1..Len(memory) : memory[i].key = key
    THEN CHOOSE i \in 1..Len(memory) : memory[i].key = key
    ELSE 0

MemoryWithout(memory, key) == SelectSeq(memory, LAMBDA m : m.key # key)

\* LRUCache.get: the entry, which becomes the most recently used
memoryGet(memory, key) ==
    LET i == MemoryIndex(memory, key)
    IN IF i = 0 THEN [memory |-> memory, entry |-> Null]
       ELSE [memory |-> Append(MemoryWithout(memory, key), memory[i]),
             entry |-> memory[i].entry]

\* LRUCache.set: the entry becomes the most recently used; beyond `max` the
\* least recently used entry is evicted
memorySet(memory, key, entry) ==
    LET added == Append(MemoryWithout(memory, key),
                        [key |-> key, entry |-> entry])
    IN IF Len(added) > MemoryMax THEN Tail(added) ELSE added

\* storage.getItem / storage.setItem
getItem(disk, key) == IF key \in DOMAIN disk THEN disk[key] ELSE Null

setItem(disk, key, entry) ==
    [k \in DOMAIN disk \cup {key} |-> IF k = key THEN entry ELSE disk[k]]

\* Mutant: get looks in the memory layer only
getFromMemoryOnly(c, key) ==
    LET mem == memoryGet(c.memory, key)
    IN [cache |-> [c EXCEPT !.memory = mem.memory], returned |-> mem.entry]

\* ResponseCache.get: memory, then disk with promotion to memory, then null
get(c, key) ==
    LET mem == memoryGet(c.memory, key)
        diskHit == getItem(c.disk, key)
    IN IF mem.entry # Null
       THEN [cache |-> [c EXCEPT !.memory = mem.memory],
             returned |-> mem.entry]
       ELSE IF diskHit # Null
       THEN [cache |-> [c EXCEPT !.diskInitialized = TRUE,
                                 !.memory = memorySet(c.memory, key, diskHit)],
             returned |-> diskHit]
       ELSE [cache |-> [c EXCEPT !.diskInitialized = TRUE],
             returned |-> Null]

\* ResponseCache.set: both layers
set(c, key, entry) ==
    [c EXCEPT !.diskInitialized = TRUE,
              !.memory = memorySet(c.memory, key, entry),
              !.disk = setItem(c.disk, key, entry)]

\* ResponseCache.clear: both layers
clear(c) ==
    [c EXCEPT !.diskInitialized = TRUE, !.memory = <<>>, !.disk = <<>>]

\* new ResponseCache() in a new process: the directory is as it was left
newResponseCache(c) ==
    [c EXCEPT !.diskInitialized = FALSE, !.memory = <<>>]

\* The last call on the cache: its arguments, what it returned and, for a
\* get, the layer that answered
CacheOp(name, key, entry, returned, layer) ==
    [name |-> name, key |-> key, entry |-> entry, returned |-> returned,
     layer |-> layer]

\* The layer in which get finds the key
LayerOf(c, key) ==
    IF MemoryIndex(c.memory, key) # 0 THEN "memory"
    ELSE IF getItem(c.disk, key) # Null THEN "disk"
    ELSE "none"

InitCache ==
    /\ IndexEmpty
    /\ RetrievalIdle
    /\ schema = NoSchema
    /\ walker = NoWalker
    /\ ranker = NoRanker
    /\ answer = NoAnswer
    /\ cache = NoCache

CacheFrame ==
    /\ UNCHANGED <<files, chunks, sqliteSequence, bm25File, vecFile, run, cli>>
    /\ UNCHANGED <<schema, walker, ranker, answer>>
    /\ UNCHANGED retrievalVars

\* await responseCache.set(key, entry)
CacheSet ==
    \E key \in CacheKeys, entry \in CacheEntries :
        /\ cache' = [set(cache, key, entry) EXCEPT
                        !.op = CacheOp("set", key, entry, Null, "none")]
        /\ CacheFrame

\* await responseCache.get(key)
CacheGet ==
    \E key \in CacheKeys :
        \E r \in {get(cache, key)} :
            /\ cache' = [r.cache EXCEPT
                            !.op = CacheOp("get", key, Null, r.returned,
                                           LayerOf(cache, key))]
            /\ CacheFrame

\* await cache.clear()
CacheClear ==
    /\ cache' = [clear(cache) EXCEPT !.op = CacheOp("clear", 0, Null, Null, "none")]
    /\ CacheFrame

\* The process ends and a later one constructs its ResponseCache
CacheRestart ==
    /\ cache' = [newResponseCache(cache) EXCEPT
                    !.op = CacheOp("new", 0, Null, Null, "none")]
    /\ CacheFrame

NextCache == CacheSet \/ CacheGet \/ CacheClear \/ CacheRestart

SpecCache == InitCache /\ [][NextCache]_vars

(***************************************************************************)
(* The generation layer: generateAnswer, and the commands that touch the   *)
(* response cache                                                          *)
(***************************************************************************)
\* Chunk contents as the generation layer sees them: code without a secret,
\* code holding a secret that a pattern of SECRET_PATTERNS matches, and what
\* redactSecrets makes of the latter
PlainCode == "code"
SecretCode == "code with API key"
RedactedCode == "code with [REDACTED_API_KEY]"

\* redactSecrets(content).redacted
redactSecrets(content) ==
    IF content = SecretCode THEN RedactedCode ELSE content

\* prepareChunksForAPI: every chunk with its content redacted
prepareChunksForAPI(found) ==
    [i \in 1..Len(found) |->
        [found[i] EXCEPT !.content = redactSecrets(found[i].content)]]

\* One step of [...input.chunkIds].sort()
InsertId(sorted, id) ==
    LET ahead == Cardinality({i \in 1..Len(sorted) : sorted[i] <= id})
    IN SubSeq(sorted, 1, ahead) \o <<id>> \o SubSeq(sorted, ahead + 1, Len(sorted))

RECURSIVE SortIds(_, _)
SortIds(sorted, rest) ==
    IF rest = <<>> THEN sorted
    ELSE SortIds(InsertId(sorted, Head(rest)), Tail(rest))

\* generateCacheKey: the digest of the query and the sorted chunk ids (the
\* provider, model and maxTokens are the same in every call of the model)
generateCacheKey(query, chunkIds) == <<query, SortIds(<<>>, chunkIds)>>

\* buildRAGPrompt / buildFullContextPrompt: the question and the code put
\* in the prompt
buildRAGPrompt(query, found) ==
    [query |-> query, code |-> [i \in 1..Len(found) |-> found[i].content]]

buildFullContextPrompt(query, fullCodebase) ==
    [query |-> query, code |-> fullCodebase]

\* The response the provider streams back
Response == "response"

\* What a generateAnswer call did
AnswerOutcome(c, sent, apiCalled, promptShown, cacheWritten, servedCached) ==
    [cache |-> c, sent |-> sent, apiCalled |-> apiCalled,
     promptShown |-> promptShown, cacheWritten |-> cacheWritten,
     servedCached |-> servedCached]

\* generateFullCodebaseAnswer: prompt from the codebase text as handed over,
\* dry run, missing provider, streaming; no cache
generateFullCodebaseAnswer(c, query, fullCodebase, provider, dryRun) ==
    LET prompt == buildFullContextPrompt(query, fullCodebase)
    IN IF dryRun /\ provider
       THEN AnswerOutcome(c, NoPrompt, FALSE, TRUE, FALSE, FALSE)
       ELSE IF ~provider
       THEN AnswerOutcome(c, NoPrompt, FALSE, FALSE, FALSE, FALSE)
       ELSE AnswerOutcome(c, prompt, TRUE, FALSE, FALSE, FALSE)

\* generateAnswer.  opts = [noCache, dryRun, fullCodebase]; llmFails: the
\* streaming call throws (caught and reported)
generateAnswer(c, query, found, provider, opts, llmFails) ==
    LET redactedChunks == prepareChunksForAPI(found)
        chunkIds == [i \in 1..Len(redactedChunks) |-> redactedChunks[i].id]
        cacheKey == generateCacheKey(query, chunkIds)
        lookup == ~opts.noCache /\ provider
        cached == get(c, cacheKey)
        c1 == IF lookup THEN cached.cache ELSE c
        prompt == buildRAGPrompt(query, redactedChunks)
    IN IF opts.fullCodebase # <<>>
       THEN generateFullCodebaseAnswer(c, query, opts.fullCodebase, provider,
                                       opts.dryRun)
       ELSE IF lookup /\ cached.returned # Null
       THEN AnswerOutcome(c1, NoPrompt, FALSE, FALSE, FALSE, TRUE)
       ELSE IF opts.dryRun /\ provider
       THEN AnswerOutcome(c1, NoPrompt, FALSE, TRUE, FALSE, FALSE)
       ELSE IF ~provider
       THEN AnswerOutcome(c1, NoPrompt, FALSE, FALSE, FALSE, FALSE)
       ELSE IF llmFails
       THEN AnswerOutcome(c1, prompt, TRUE, FALSE, FALSE, FALSE)
       ELSE IF ~opts.noCache
       THEN AnswerOutcome(set(c1, cacheKey, Response), prompt, TRUE, FALSE, TRUE,
                     FALSE)
       ELSE AnswerOutcome(c1, prompt, TRUE, FALSE, FALSE, FALSE)

\* The chunks a search may hand to generateAnswer: chunk 1 is plain code,
\* chunk 2 holds a secret
FoundChunks ==
    LET one == [id |-> 1, content |-> PlainCode]
        two == [id |-> 2, content |-> SecretCode]
    IN {<<one>>, <<one, two>>, <<two, one>>}

\* bypassResult.fullText of shouldBypassRAG: the chunk contents of the store
\* joined as they are, or nothing when the repository is not small
FullTexts == {<<>>, <<PlainCode, SecretCode>>}

Queries == {"how?"}

AnswerOptions ==
    [noCache : BOOLEAN, dryRun : BOOLEAN, fullCodebase : FullTexts]

\* An indexed repository, an empty cache directory
InitAnswer ==
    /\ RetrievalIdle
    /\ schema = NoSchema
    /\ walker = NoWalker
    /\ ranker = NoRanker
    /\ cache = NoCache
    /\ answer = NoAnswer
    /\ run = NoRun
    /\ files = [p \in AbsPaths |-> IF p = AbsPath("a.ts") THEN WholeFn
                                   ELSE OneFn]
    /\ \E w \in {indexRepository(EmptyWorld, files, {}, "none")} :
          /\ chunks = w.chunks
          /\ sqliteSequence = w.seqNo
          /\ bm25File = w.bm25
          /\ vecFile = w.vec

\* `oracle ask`, from the call of generateAnswer on: the process has its own
\* ResponseCache over the cache directory
GenerateAnswer ==
    \E query \in Queries, found \in FoundChunks, provider \in BOOLEAN,
       opts \in AnswerOptions, llmFails \in BOOLEAN :
        \E g \in {generateAnswer(newResponseCache(cache), query, found,
                                 provider, opts, llmFails)} :
            /\ answer' = [stage |-> "done", query |-> query, chunks |-> found,
                          provider |-> provider, noCache |-> opts.noCache,
                          dryRun |-> opts.dryRun,
                          fullCodebase |-> opts.fullCodebase,
                          llmFails |-> llmFails, sent |-> g.sent,
                          apiCalled |-> g.apiCalled,
                          promptShown |-> g.promptShown,
                          cacheWritten |-> g.cacheWritten,
                          servedCached |-> g.servedCached]
            /\ cache' = [g.cache EXCEPT !.op = NoCache.op]
            /\ cli' = [NoCli EXCEPT !.command = "ask", !.at = "exited"]
            /\ UNCHANGED <<files, chunks, sqliteSequence, bm25File, vecFile,
                           run>>
            /\ UNCHANGED <<schema, walker, ranker>>
            /\ UNCHANGED retrievalVars

\* What both update commands do to the index: updateRepository, then exit
\* code 0, or 1 from the catch
UpdateIndex(r, command) ==
    /\ r.seqNo <= MaxId
    /\ chunks' = r.chunks
    /\ sqliteSequence' = r.seqNo
    /\ bm25File' = r.bm25
    /\ vecFile' = r.vec
    /\ run' = [op |-> "update", ok |-> r.ok, gitOk |-> TRUE,
               stats |-> r.stats, openHandles |-> r.handles]
    /\ cli' = [NoCli EXCEPT !.command = command, !.at = "exited",
                            !.exitCode = IF r.ok THEN 0 ELSE 1]
    /\ UNCHANGED <<files, answer>>
    /\ UNCHANGED <<schema, walker, ranker>>
    /\ UNCHANGED retrievalVars

\* `oracle index update`: the action of index.ts never touches the cache
OracleIndexUpdate ==
    \E changed \in {{}, AbsPaths}, fault \in {"none", "insert"} :
        \E r \in {updateRepository(World, files, TRUE, changed, {}, fault)} :
            /\ UpdateIndex(r, "index update")
            /\ cache' = [newResponseCache(cache) EXCEPT !.op = NoCache.op]

\* `oracle update`: after updateRepository returns, new ResponseCache() and
\* clear(); not after a throw
OracleUpdate ==
    \E changed \in {{}, AbsPaths}, fault \in {"none", "insert"} :
        \E r \in {updateRepository(World, files, TRUE, changed, {}, fault)} :
            /\ UpdateIndex(r, "update")
            /\ cache' = [(IF r.ok THEN clear(newResponseCache(cache))
                          ELSE newResponseCache(cache))
                            EXCEPT !.op = NoCache.op]

NextAnswer == GenerateAnswer \/ OracleIndexUpdate \/ OracleUpdate

SpecAnswer == InitAnswer /\ [][NextAnswer]_vars

(***************************************************************************)
(* Claims about the indexer                                                *)
(***************************************************************************)
\* The last run was indexRepository (directly, or as updateRepository's
\* fallback) and it returned
FullIndexReturned ==
    /\ run.ok
    /\ \/ run.op = "full"
       \/ run.op = "update" /\ ~run.gitOk

CountDocs(id) ==
    Cardinality({j \in 1..Len(bm25File.docs) : bm25File.docs[j].id = id})

CountKeys(key) ==
    Cardinality({j \in 1..Len(vecFile.keys) : vecFile.keys[j] = key})

\* C1: after an indexRepository run that returned, every row of the Chunk
\* Store has exactly one document "<file_path>:<start_line>" in the persisted
\* lexical index and exactly one record keyed by its id in the persisted
\* vector index.
C1_FullIndexMirrorsStore ==
    FullIndexReturned =>
        \A i \in 1..Len(chunks) :
            /\ CountDocs(DocId(chunks[i].filePath, chunks[i].startLine)) = 1
            /\ CountKeys(chunks[i].id) = 1

\* C1 witness: a returned full index that stored chunks of both files, with
\* ids that are no longer the first ones of the table
C1_Witness ==
    /\ FullIndexReturned
    /\ Len(chunks) = 2
    /\ chunks[1].id > 1
    /\ chunks[1].filePath # chunks[2].filePath

\* C2: after completed runs, every record of the persisted lexical and vector
\* indexes refers to a row that exists in the Chunk Store.
C2_IndexRecordsHaveChunks ==
    (run.op \in {"full", "update"} /\ run.ok) =>
        /\ \A j \in 1..Len(bm25File.docs) :
              \E i \in 1..Len(chunks) :
                  DocId(chunks[i].filePath, chunks[i].startLine)
                      = bm25File.docs[j].id
        /\ \A j \in 1..Len(vecFile.keys) :
              \E i \in 1..Len(chunks) : chunks[i].id = vecFile.keys[j]

\* A stored row without its id: the observable chunk
Observable(r) ==
    [filePath |-> r.filePath, symbolName |-> r.symbolName,
     symbolType |-> r.symbolType, content |-> r.content,
     contentHash |-> r.contentHash, startLine |-> r.startLine,
     endLine |-> r.endLine]

\* The file exists and its rows are the chunks of its current content: the
\* content has not changed since the rows were built
UnchangedSinceBuild(p) ==
    LET rows == getChunksByFile(chunks, p)
    IN /\ files[p] # NoFile
       /\ Len(rows) > 0
       /\ [i \in 1..Len(rows) |-> Observable(rows[i])]
              = chunkCodeFile(p, files[p])

\* C3: an updateRepository run that obtained the changed paths and returned
\* leaves the rows (ids included) of every unchanged file as they were.
\* (The fallback to a full index rebuilds every row by design and is left
\* out.)
C3_UnchangedFilesKeepRows ==
    [][(run'.op = "update" /\ run'.ok /\ run'.gitOk) =>
          \A p \in AbsPaths :
              UnchangedSinceBuild(p) =>
                  getChunksByFile(chunks', p) = getChunksByFile(chunks, p)]_vars

\* C29: when updateRepository has returned, every file_path that has rows in
\* the Chunk Store is a file of the working tree: the rows of a file deleted
\* since the previous build are gone.
C29_NoRowsOfDeletedFiles ==
    [][(files' = files /\ run'.op = "update" /\ run'.ok) =>
          \A n \in 1..Len(chunks') : files'[chunks'[n].filePath] # NoFile]_vars

\* C11: after an indexRepository run that returned with zero chunks, the
\* persisted lexical and vector indexes hold no records, whatever an earlier
\* build had left in them.
C11_ZeroChunkBuildEmptiesIndexes ==
    (FullIndexReturned /\ run.stats.chunksCreated = 0) =>
        /\ bm25File.docs = <<>>
        /\ vecFile.keys = <<>>

\* The rows of file p after the step are the chunks of its current content
\* (none when the file is gone): its part of the complete new set
RowsRebuilt(p) ==
    LET rows == getChunksByFile(chunks', p)
    IN [i \in 1..Len(rows) |-> Observable(rows[i])]
          = IF files[p] = NoFile THEN <<>> ELSE chunkCodeFile(p, files[p])

\* C12: an indexRepository or updateRepository run that throws leaves the
\* Chunk Store as it was before the run, or with the complete new rows:
\* every file has its rows of before or the chunks of its current content.
C12_FailedRunKeepsOrReplacesRows ==
    [][(~run'.ok /\ files' = files) =>
          \/ chunks' = chunks
          \/ \A p \in AbsPaths :
                \/ getChunksByFile(chunks', p) = getChunksByFile(chunks, p)
                \/ RowsRebuilt(p)]_vars

\* C13: when indexRepository or updateRepository has returned or thrown,
\* on whatever path, no Chunk Store handle that the run opened is still open.
C13_EveryHandleClosed ==
    run.op # "none" => run.openHandles = 0

\* C14: a process ended by SIGINT or SIGTERM while a command was running
\* exits with code 130 or 143 respectively, and no Chunk Store handle that
\* was open when the signal came is left unclosed.
C14_SignalExitsAndCloses ==
    (cli.at = "exited" /\ cli.signal # "none") =>
        /\ cli.exitCode = IF cli.signal = "SIGINT" THEN ExitInterrupt
                          ELSE ExitTerminate
        /\ cli.handle # "open"

\* C15: no two rows of the Chunk Store have the same file path, start line
\* and end line.
C15_FileAndLinesIdentifyARow ==
    \A i, j \in 1..Len(chunks) :
        (/\ chunks[i].filePath = chunks[j].filePath
         /\ chunks[i].startLine = chunks[j].startLine
         /\ chunks[i].endLine = chunks[j].endLine) => i = j

\* The step is the insertChunksBatch of a running index command
InsertStep ==
    /\ cli.at \in {"files", "reindex"}
    /\ cli' # cli
    /\ cli'.signal = "none"

\* The batch that step hands to insertChunksBatch
InsertedBatch ==
    LoopChunks(LoopOutcomes(
        IF cli.at = "files" THEN discoverFiles(files)
        ELSE SelectSeq(AbsPathSeq, LAMBDA p : p \in cli.changed),
        files, {}))

\* C16: after insertChunksBatch(C), getAllChunks returns the rows that were
\* there followed by the rows of C with their fields, and the ids of the
\* new rows are greater than every id given before (those of deleted rows
\* included) and increase in the order of C.
C16_InsertBatchAppends ==
    [][InsertStep =>
          LET C == InsertedBatch
              before == getAllChunks(chunks)
              after == getAllChunks(chunks')
              n == Len(before)
          IN /\ Len(after) = n + Len(C)
             /\ SubSeq(after, 1, n) = before
             /\ \A i \in 1..Len(C) :
                   /\ Observable(after[n + i]) = C[i]
                   /\ after[n + i].id > sqliteSequence
                   /\ \A m \in 1..n : after[n + i].id > before[m].id
                   /\ \A j \in 1..Len(C) :
                         i < j => after[n + i].id < after[n + j].id]_vars

\* C16 witness: an update has re-inserted the chunk of a.ts behind the row
\* of b.ts that was there, with an id above the two used before
C16_Witness ==
    /\ cli.command = "update"
    /\ cli.at = "exited"
    /\ cli.signal = "none"
    /\ Len(chunks) = 2
    /\ chunks[1].filePath = AbsPath("b.ts")
    /\ chunks[2].filePath = AbsPath("a.ts")
    /\ chunks[2].id > 2

\* The versions runMigrations has to apply: registered, above the
\* user_version it found, ascending
RECURSIVE Ascending(_)
Ascending(versions) ==
    IF versions = {} THEN <<>>
    ELSE LET least == CHOOSE v \in versions : \A u \in versions : v <= u
         IN <<least>> \o Ascending(versions \ {least})

DueVersions ==
    Ascending({schema.migrations[i].version : i \in 1..Len(schema.migrations)}
                 \cap {v \in MigrationVersions : v > schema.before.userVersion})

\* The store after the migrations of `applied` were applied in full to the
\* store runMigrations found
StoreAfter(applied) ==
    [userVersion |-> IF applied = <<>> THEN schema.before.userVersion
                     ELSE applied[Len(applied)],
     applied |-> schema.before.applied
                    \cup {applied[i] : i \in 1..Len(applied)},
     changes |-> schema.before.changes
                    \cup {<<applied[i], "full">> : i \in 1..Len(applied)}]

AppliedAgain ==
    ({schema.log[i] : i \in 1..Len(schema.log)} \cap schema.before.applied)
    \cup (IF schema.threw /\ Len(schema.log) < Len(DueVersions)
          THEN {v \in {DueVersions[Len(schema.log) + 1]} :
                   /\ v \in schema.before.applied
                   /\ schema.db.applied = schema.before.applied
                   /\ <<v, "full">> \in schema.db.changes}
          ELSE {})

Outcome(r) ==
    [chunks |-> r.chunks, seqNo |-> r.seqNo, bm25 |-> r.bm25, vec |-> r.vec,
     stats |-> r.stats, ok |-> r.ok]

\* The fallback took place in the last run
FellBack == run.op = "update" /\ ~run.gitOk

LimitInForce ==
    IF walker.option.kind = "number" THEN walker.option.n
    ELSE DefaultMaxFileSizeBytes

\* C19: discoverFiles accepts exactly the files whose size is at most the
\* limit in force, so a file of exactly that size is accepted and one a byte
\* larger is rejected; the limit is the caller's max_bytes, and 500 * 1024
\* when the option is absent or undefined.
C19_SizeLimitAndDefault ==
    walker.walked =>
        \A p \in DOMAIN walker.sizes :
            p \in walker.accepted <=> walker.sizes[p] <= LimitInForce

\* The remote call was made and threw
RemoteFailed ==
    /\ ranker.stage = "done"
    /\ "remote" \in {ranker.tried[i] : i \in 1..Len(ranker.tried)}
    /\ ranker.env.remoteFails

\* The local cross-encoder was run and threw, or its model cannot be loaded
LocalFailedOrUnavailable ==
    \/ ranker.tried # <<>> /\ ranker.tried[Len(ranker.tried)] = "local"
                           /\ ranker.env.localFails
    \/ ~ranker.env.onnxLoads

\* C20: rerank tries Remote before Local; after a failed remote call it runs
\* the local cross-encoder whenever that model can be loaded; and it returns
\* the passthrough result (the first topN candidates with score 1.0) only
\* when the local cross-encoder failed or is unavailable.
C20_RemoteThenLocalThenPassthrough ==
    ranker.stage = "done" =>
        /\ ranker.tried \in {<<>>, <<"remote">>, <<"local">>,
                             <<"remote", "local">>}
        /\ (RemoteFailed /\ ranker.env.onnxLoads) =>
               ranker.tried = <<"remote", "local">>
        /\ ranker.via = "passthrough" =>
               /\ ranker.result = FirstTopN(ranker.candidates, ranker.topN)
               /\ LocalFailedOrUnavailable

\* C21: rerank never throws: whatever reranker initReranker built (remote
\* configured or not, ONNX session loaded or null) and whichever of the
\* remote call and the local inference fail, it returns a list of results
\* (of at most topN, never more than there are candidates).
C21_RerankNeverThrows ==
    ranker.stage = "done" =>
        /\ ~ranker.threw
        /\ Len(ranker.result) = Min(ranker.topN, Len(ranker.candidates))

\* The local inference threw inside rerank, and rerank returned
C21_Witness ==
    /\ ranker.stage = "done"
    /\ ranker.tried = <<"local">>
    /\ ranker.env.localFails
    /\ ranker.via = "passthrough"
    /\ ranker.result # <<>>

\* C22: with at most topN candidates rerank returns them all, in input
\* order, each with score 1.0, and calls neither the remote reranker nor the
\* local model.
C22_FewCandidatesBypass ==
    (ranker.stage = "done" /\ Len(ranker.candidates) <= ranker.topN) =>
        /\ ranker.result = [i \in 1..Len(ranker.candidates) |->
                               [id |-> ranker.candidates[i], score |-> "1.0"]]
        /\ ranker.tried = <<>>
        /\ ~ranker.threw

\* As many candidates as topN, a remote reranker that would answer: bypassed
C22_Witness ==
    /\ ranker.stage = "done"
    /\ Len(ranker.candidates) = ranker.topN
    /\ ranker.reranker.mode = "cohere"
    /\ ~ranker.env.remoteFails
    /\ ranker.via = "bypass"

\* C23: no error on a single file aborts indexRepository or updateRepository,
\* and when the run returns after its file loop, filesFailed is the number
\* of files on which an error occurred (unreadable, parse failure) and
\* filesProcessed + filesFailed is the number of files the loop attempted.
C23_PerFileErrorsCounted ==
    run.op # "none" =>
        /\ run.ok
        /\ run.looped =>
              /\ run.stats.filesFailed = run.errors
              /\ run.stats.filesProcessed + run.stats.filesFailed
                    = run.attempted

\* An update command of the CLI has just completed
UpdateCompleted ==
    /\ cli.command \in {"index update", "update"}
    /\ cli.at = "exited"
    /\ cli.exitCode = 0

\* C24: when `oracle index update` or `oracle update` has completed, the
\* response cache is empty in both layers, so that no response cached before
\* the update can be served afterwards.
C24_UpdateClearsResponseCache ==
    UpdateCompleted => (cache.disk = <<>> /\ cache.memory = <<>>)

\* C25: whatever reaches the LLM provider has been through secret redaction:
\* no prompt sent with an API call carries code with an unredacted secret.
C25_OnlyRedactedCodeSent ==
    answer.apiCalled =>
        \A i \in 1..Len(answer.sent.code) : answer.sent.code[i] # SecretCode

\* C26: an `oracle ask` run with the dry-run flag and a provider shows the
\* prompt, calls no API and writes nothing to the cache.
C26_DryRunShowsPromptOnly ==
    (answer.stage = "done" /\ answer.dryRun /\ answer.provider) =>
        /\ answer.promptShown
        /\ ~answer.apiCalled
        /\ ~answer.cacheWritten

\* The last call was set(key, .) or clear()
Overwrites(c, key) ==
    \/ c.op.name = "clear"
    \/ c.op.name = "set" /\ c.op.key = key

\* C30: after set(k, e), every later get(k) returns e until clear() or another
\* set(k, .): a set makes get return its entry, no other call changes what
\* get returns for a key, whatever the memory layer has evicted, and a get
\* that finds its key returns the stored entry and leaves it in memory.
C30_EntrySurvivesEviction ==
    [][ /\ cache'.op.name = "set" =>
            get(cache', cache'.op.key).returned = cache'.op.entry
        /\ \A k \in CacheKeys :
            ~Overwrites(cache', k) =>
                get(cache', k).returned = get(cache, k).returned
        /\ cache'.op.name = "get" =>
            /\ cache'.op.returned = get(cache, cache'.op.key).returned
            /\ cache'.op.returned # Null =>
                   /\ MemoryIndex(cache'.memory, cache'.op.key) # 0
                   /\ memoryGet(cache'.memory, cache'.op.key).entry
                        = cache'.op.returned
      ]_vars

\* C30 witness: with more keys on disk than the memory layer holds, a get was
\* answered by the disk layer and its key is in memory again
C30_Witness ==
    /\ cache.op.name = "get"
    /\ cache.op.layer = "disk"
    /\ cache.op.returned \in CacheEntries
    /\ Cardinality(DOMAIN cache.disk) > MemoryMax
    /\ MemoryIndex(cache.memory, cache.op.key) # 0

(***************************************************************************)
(* Claims about hybridSearch (checked under SpecSearch)                    *)
(***************************************************************************)
\* A search has run with a non-blank query
Searched == pc = "searched" /\ ~search.blank

\* 1-based ranks at which the lexical / the vector search returned a chunk
LexicalRanks(chunk) ==
    {i \in 1..Len(search.bm25Results) :
        /\ search.bm25Results[i].filePath = chunk.filePath
        /\ search.bm25Results[i].startLine = chunk.startLine}

VectorRanks(chunk) ==
    {j \in 1..Len(search.vectorResults) :
        search.vectorResults[j].id = chunk.id}

ResultPositions(chunk) ==
    {p \in 1..Len(results) : results[p].id = chunk.id}

\* Y is in exactly one of the two lists, behind X in that list
OnlyOneListBehind(X, Y) ==
    \/ /\ LexicalRanks(Y) # {} /\ VectorRanks(Y) = {}
       /\ \A i \in LexicalRanks(X), j \in LexicalRanks(Y) : j > i
    \/ /\ VectorRanks(Y) # {} /\ LexicalRanks(Y) = {}
       /\ \A i \in VectorRanks(X), j \in VectorRanks(Y) : j > i

\* C4: a chunk X returned by both the lexical and the vector search is
\* placed before a chunk Y that only one of them returned at a rank no
\* better than X's in that list, and X's score in the result is the sum of
\* its reciprocal-rank contributions from the two lists.
C4_BothListsOutrankOne ==
    Searched =>
        \A x, y \in 1..Len(chunks) :
            LET X == chunks[x]
                Y == chunks[y]
            IN (/\ x # y
                /\ LexicalRanks(X) # {} /\ VectorRanks(X) # {}
                /\ OnlyOneListBehind(X, Y))
               => /\ \A q \in ResultPositions(Y) :
                        \E p \in ResultPositions(X) : p < q
                  /\ \A p \in ResultPositions(X) :
                        \A i \in LexicalRanks(X), j \in VectorRanks(X) :
                            results[p].score =
                                FAdd(rrfScore(i - 1, rrfK), rrfScore(j - 1, rrfK))

\* The fused list of the search that ran, before the cut to fusionLimit
FusedList ==
    reciprocalRankFusion(
        <<[i \in 1..Len(search.bm25Results) |->
              [id |-> Str(search.bm25Results[i].id)]],
          [j \in 1..Len(search.vectorResults) |->
              [id |-> Num(search.vectorResults[j].id)]]>>, rrfK)

TopFused == SubSeq(FusedList, 1, Min(search.fusionLimit, Len(FusedList)))

\* The row is the chunk a fused entry stands for: the row with that numeric
\* id, or a row at the file and start line of that lexical hit
Matches(entry, row) ==
    IF entry.id.type = "number"
    THEN row.id = entry.id.num
    ELSE \E i \in 1..Len(search.bm25Results) :
            /\ search.bm25Results[i].id = entry.id.str
            /\ search.bm25Results[i].filePath = row.filePath
            /\ search.bm25Results[i].startLine = row.startLine

HasRow(entry) == \E n \in 1..Len(chunks) : Matches(entry, chunks[n])

\* C5: hybridSearch returns at most fusionLimit results with non-increasing
\* scores; they are the entries of the first fusionLimit of the fused list
\* that have a row in the store, in the fused order, each carrying the fields
\* of such a row; entries without a row are dropped, and against an empty
\* store the result is empty.
C5_ResultsFollowFusedOrder ==
    pc = "searched" =>
        LET live == SelectSeq(TopFused, HasRow)
        IN /\ Len(results) <= search.fusionLimit
           /\ \A i, j \in 1..Len(results) :
                 i < j => ~FLess(results[i].score, results[j].score)
           /\ Len(results) = Len(live)
           /\ \A i \in 1..Len(results) :
                 \E n \in 1..Len(chunks) :
                    /\ Matches(live[i], chunks[n])
                    /\ results[i] = Unified(chunks[n], live[i].score)
           /\ chunks = <<>> => results = <<>>

\* C5 witness: a search whose fused list was cut to fusionLimit, lost an
\* entry without a row, and still returned two results
C5_Witness ==
    /\ Searched
    /\ search.fusionLimit < Len(FusedList)
    /\ Len(SelectSeq(TopFused, HasRow)) < Len(TopFused)
    /\ Len(results) >= 2
    /\ results[1].id > results[2].id

\* C27: one result list of hybridSearch never holds the same chunk id twice,
\* also when a chunk is found by both the lexical and the vector search.
C27_NoChunkTwice ==
    pc = "searched" =>
        \A i, j \in 1..Len(results) : i # j => results[i].id # results[j].id

(***************************************************************************)
(* Claims about reciprocalRankFusion (checked under SpecRRF)               *)
(***************************************************************************)
InputIds(lists) ==
    {lists[l][r].id : <<l, r>> \in
        {<<l, r>> \in (1..Len(lists)) \X (1..MaxRank) : r <= Len(lists[l])}}

\* The places <<list, position>> (both from 1) where id stands in the input
Occurrences(lists, id) ==
    {<<l, r>> \in (1..Len(lists)) \X (1..MaxRank) :
        r <= Len(lists[l]) /\ lists[l][r].id = id}

\* 1/(r + 1 + k) for every occurrence of id at a zero-based position r, in
\* the order of the lists and of the positions in them
Contributions(lists, id, k) ==
    LET ranked == [l \in 1..Len(lists) |->
                     [r \in 1..Len(lists[l]) |->
                        [id |-> lists[l][r].id, term |-> FRecip(r + k)]]]
        own == SelectSeq(Flatten(ranked), LAMBDA o : o.id = id)
    IN [i \in 1..Len(own) |-> own[i].term]

RECURSIVE FSum(_)
FSum(terms) ==
    IF terms = <<>> THEN FZero
    ELSE FAdd(FSum(SubSeq(terms, 1, Len(terms) - 1)), terms[Len(terms)])

\* The sum of the contributions of id, added up as numbers in that order
ExpectedScore(lists, id, k) == FSum(Contributions(lists, id, k))

IdsOf(rs) == [i \in 1..Len(rs) |-> rs[i].id]

\* C6: the fusion returns exactly one entry per distinct input id, scored
\* with the sum of 1/(r+1+k) over all its occurrences; S5 gives [B, C, A, D].
C6_FusionScores ==
    pc = "fused" =>
        /\ \A id \in InputIds(fusionInput) :
              Cardinality({i \in 1..Len(fused) : fused[i].id = id}) = 1
        /\ \A i \in 1..Len(fused) :
              /\ fused[i].id \in InputIds(fusionInput)
              /\ fused[i].score = ExpectedScore(fusionInput, fused[i].id, rrfK)
        /\ (fusionInput = S5Lists /\ rrfK = DefaultK) =>
              IdsOf(fused) = <<Str("B"), Str("C"), Str("A"), Str("D")>>

\* C6 witness: scenario S5 has been fused and B, found in both lists, leads
C6_Witness ==
    /\ pc = "fused"
    /\ fusionInput = S5Lists
    /\ rrfK = DefaultK
    /\ Len(fused) = 4
    /\ fused[1].id = Str("B")

\* Index of the first occurrence of id in the input, earlier list first
FirstOccurrence(lists, id) ==
    LET all == Flatten(lists)
    IN CHOOSE n \in 1..Len(all) :
          /\ all[n].id = id
          /\ \A m \in 1..(n - 1) : all[m].id # id

\* C7: the output is sorted by score descending, and entries of equal score
\* stand in the order of their first occurrence in the input.
C7_SortedAndStable ==
    pc = "fused" =>
        \A i, j \in 1..Len(fused) :
            i < j =>
                \/ FLess(fused[j].score, fused[i].score)
                \/ /\ fused[i].score = fused[j].score
                   /\ FirstOccurrence(fusionInput, fused[i].id)
                          < FirstOccurrence(fusionInput, fused[j].id)

\* C7 witness: two entries tie (each leads one list) and a third scores less
C7_Witness ==
    /\ pc = "fused"
    /\ Len(fused) = 3
    /\ fused[1].score = fused[2].score
    /\ FLess(fused[3].score, fused[2].score)

NoRepeats(list) ==
    \A i, j \in 1..Len(list) : i # j => list[i].id # list[j].id

\* C8 as claimed: for every single list, repeats included, the output has
\* the items of the list in the order of the list.
C8_SingleListOrderKept ==
    (pc = "fused" /\ Len(fusionInput) = 1) =>
        IdsOf(fused) = IdsOf(fusionInput[1])

\* C8 amended: for every single list in which no id occurs twice, the output
\* has the items of the list in the order of the list.
C8_DistinctSingleListOrderKept ==
    (pc = "fused" /\ Len(fusionInput) = 1 /\ NoRepeats(fusionInput[1])) =>
        IdsOf(fused) = IdsOf(fusionInput[1])

\* C8 witness: a single list of three different ids has been fused
C8_Witness ==
    /\ pc = "fused"
    /\ Len(fusionInput) = 1
    /\ Len(fusionInput[1]) = 3
    /\ NoRepeats(fusionInput[1])
    /\ Len(fused) = 3

Permuted(lists, f) == [i \in 1..Len(lists) |-> lists[f[i]]]

ListPermutations(lists) ==
    {f \in [1..Len(lists) -> 1..Len(lists)] :
        \A i, j \in 1..Len(lists) : i # j => f[i] # f[j]}

ScoreMap(rs) == {<<rs[i].id, rs[i].score>> : i \in 1..Len(rs)}

PositionIn(rs, id) == CHOOSE i \in 1..Len(rs) : rs[i].id = id

\* C9 as claimed: fusing the lists in any other order gives the same score
\* for every id, and the same output order except among entries of equal
\* score.
C9_ListOrderIrrelevant ==
    pc = "fused" =>
        \A f \in ListPermutations(fusionInput) :
            LET other == reciprocalRankFusion(Permuted(fusionInput, f), rrfK)
            IN /\ ScoreMap(other) = ScoreMap(fused)
               /\ \A i, j \in 1..Len(fused) :
                     (i < j /\ fused[i].score # fused[j].score) =>
                         PositionIn(other, fused[i].id)
                             < PositionIn(other, fused[j].id)

\* The id occurs at most twice in the whole input
AtMostTwice(lists, id) == Cardinality(Occurrences(lists, id)) <= 2

\* C9 amended: fusing the lists in any other order gives the same set of
\* ids and the same score for every id that occurs at most twice in the
\* input; when every id occurs at most twice, the output order is the same
\* except among entries of equal score.
C9_ListOrderIrrelevantUpToTwo ==
    pc = "fused" =>
        \A f \in ListPermutations(fusionInput) :
            LET other == reciprocalRankFusion(Permuted(fusionInput, f), rrfK)
            IN /\ {other[i].id : i \in 1..Len(other)}
                     = {fused[i].id : i \in 1..Len(fused)}
               /\ Len(other) = Len(fused)
               /\ \A i \in 1..Len(fused) :
                     AtMostTwice(fusionInput, fused[i].id) =>
                         other[PositionIn(other, fused[i].id)].score
                             = fused[i].score
               /\ (\A id \in InputIds(fusionInput) :
                       AtMostTwice(fusionInput, id)) =>
                     \A i, j \in 1..Len(fused) :
                        (i < j /\ fused[i].score # fused[j].score) =>
                            PositionIn(other, fused[i].id)
                                < PositionIn(other, fused[j].id)

\* C9 witness: two lists were fused in which no id occurs more than twice,
\* one id stands in both at different ranks, and the swap of the lists
\* changes the output, though only among equal scores
C9_Witness ==
    /\ pc = "fused"
    /\ Len(fusionInput) = 2
    /\ Len(fused) = 3
    /\ \A id \in InputIds(fusionInput) : AtMostTwice(fusionInput, id)
    /\ \E r1 \in 1..Len(fusionInput[1]), r2 \in 1..Len(fusionInput[2]) :
          r1 # r2 /\ fusionInput[1][r1].id = fusionInput[2][r2].id
    /\ reciprocalRankFusion(<<fusionInput[2], fusionInput[1]>>, rrfK) # fused

\* How an id prints: String(id)
Printed(id) == IF id.type = "number" THEN ToString(id.num) ELSE id.str

\* C10: a string id and a number id never share an accumulator entry, also
\* when they print alike, and each output id has the type it had in the
\* input.
C10_IdTypesKeptApart ==
    pc = "fused" =>
        /\ \A i \in 1..Len(fused) :
              \E l \in 1..Len(fusionInput) :
                  \E r \in 1..Len(fusionInput[l]) :
                      /\ fusionInput[l][r].id.type = fused[i].id.type
                      /\ fusionInput[l][r].id = fused[i].id
        /\ \A x, y \in InputIds(fusionInput) :
              (x.type # y.type) =>
                  \E i, j \in 1..Len(fused) :
                      /\ i # j
                      /\ fused[i].id = x
                      /\ fused[j].id = y
                      /\ fused[i].score = ExpectedScore(fusionInput, x, rrfK)
                      /\ fused[j].score = ExpectedScore(fusionInput, y, rrfK)

\* C10 witness: the string "7" and the number 7 were both in the input and
\* came out as two entries
C10_Witness ==
    /\ pc = "fused"
    /\ Str("7") \in InputIds(fusionInput)
    /\ Num(7) \in InputIds(fusionInput)
    /\ \E i, j \in 1..Len(fused) :
          /\ fused[i].id = Str("7")
          /\ fused[j].id = Num(7)
          /\ Printed(fused[i].id) = Printed(fused[j].id)

====
